---------------------------- MODULE Spec2Model ----------------------------
(***************************************************************************)
(* Box-office harvesting pipeline (Nepal/Khalti and Sri Lanka/BookMyShow   *)
(* trackers).                                                              *)
(*                                                                         *)
(* Five views of one run are modelled:                                     *)
(*   - the fetch view (SpecFetch): the main thread and the pool workers    *)
(*     issuing requests through safe_request, with the global 429          *)
(*     cooldown of the Nepal scripts and the multi-pass loop of the        *)
(*     Sri Lanka scripts;                                                  *)
(*   - the data view (SpecRun): successive runs of a script loading the    *)
(*     Detailed file, merging the freshly fetched rows and persisting;     *)
(*   - the row view (SpecRow): the row extractor applied to one upstream   *)
(*     show payload;                                                       *)
(*   - the summary view (SpecSummary): the summary builder applied to a    *)
(*     list of merged rows;                                                *)
(*   - the cutoff view (SpecCutoff): the Nepal cutoff filter applied to    *)
(*     the shows of one movie-info response;                               *)
(*   - the Japan scraper (SpecScraper): run() of scraper.py over the dates *)
(*     from START_YEAR-01-01 to today.                                     *)
(*                                                                         *)
(* Time is kept relative to the current clock and counted in whole        *)
(* seconds: cooldown_until holds max(0, cooldown_until - time.time()), a   *)
(* sleeping caller holds the number of clock ticks its time.sleep still    *)
(* has to see, and Tick lets the clock pass to the next second.  A sleep   *)
(* of d seconds sees at least floor(d) ticks and may last longer.          *)
(***************************************************************************)
EXTENDS Integers, Sequences, FiniteSets, TLC

VARIABLES
    script,          \* which script this process runs
    \* ---- fetch view ----
    pc,              \* position of every caller inside its current call
    retries,         \* safe_request: retries left (Nepal)
    calls,           \* Transport Layer calls issued by the current safe_request
    timer,           \* time the caller's current time.sleep still has to last
    outcome,         \* outcome of the caller's last Transport Layer call
    prev,            \* last governor/transport operation the caller completed
                     \* since the head of the retry loop
    lock,            \* holder of cooldown_lock, or Free
    cooldown_until,  \* time left until the cooldown deadline
    cooldown_active, \* the cooldown_active flag
    stage,           \* position of the main thread in the script
    AUTH_TOKEN,      \* the token global
    movies_left,     \* movies of movie_list still to process
    queue,           \* submitted jobs no worker has taken yet
    results,         \* rows collected from the pool for the current movie
    total_shows,     \* jobs submitted to the pool for the current movie
    attempt,         \* Sri Lanka: number of the current pass
    pending,         \* Sri Lanka: event variants to scrape in the current pass
    next_round,      \* Sri Lanka: variants that were not ok in the current pass
    todo,            \* Sri Lanka: submitted variants no pool thread has taken yet
    job,             \* Sri Lanka: the variant each pool thread is scraping
    added,           \* Sri Lanka: times the rows of a variant were added to all_rows
    result,          \* Sri Lanka: what scrape_event came to for a variant in this pass
    \* ---- data view ----
    rpc,             \* position of the run
    existing_rows,   \* rows loaded from the Detailed file
    new_rows,        \* rows fetched in this run (Sri Lanka daily: eligible_new)
    scraped,         \* Sri Lanka daily: the rows the passes collected
    all_rows,        \* the rows to persist
    detail_at_start, \* the Detailed file as it was when the run began
    detail_file,     \* content of the Detailed file, or NoFile
    summary_file,    \* content of the Summary file, or NoFile
    detail_tmp,      \* content of the Detailed file's .tmp, or NoFile
    summary_tmp,     \* content of the Summary file's .tmp, or NoFile
    \* ---- row view ----
    payload,         \* the upstream payload of one show, or NoPayload
    extracted,       \* what the row extractor made of it, or NoRow
    \* ---- summary view ----
    merged,          \* the rows handed to the summary builder
    summary,         \* the summary built from them, or NoSummary
    \* ---- cutoff view ----
    listed,          \* the shows the movie-info response lists
    dispatched,      \* the show ids picked for fetching, once picked
    \* ---- Japan scraper ----
    today,           \* today's date (JST), as a day number from START_YEAR-01-01
    files,           \* per date, the content of its JSON file, or NoFile
    dates,           \* the dates run() submits to the pool, once collected
    status,          \* per date, where its scrape is and what it returned
    attempts,        \* per date, the attempts counter of scrape()
    cursor           \* the place of run() in the results of pool.map

reqVars == <<retries, calls, timer, outcome, prev>>
cdVars == <<lock, cooldown_until, cooldown_active>>
mainVars == <<stage, AUTH_TOKEN, movies_left, queue, results, total_shows>>

slVars == <<attempt, pending, next_round, todo, job, added, result>>
fileVars == <<detail_file, summary_file, detail_tmp, summary_tmp>>
runVars == <<rpc, existing_rows, new_rows, scraped, all_rows, detail_at_start,
             fileVars>>

scraperVars == <<today, files, dates, status, attempts, cursor>>
rowVars == <<payload, extracted, merged, summary, listed, dispatched, scraperVars>>

vars == <<script, pc, reqVars, cdVars, mainVars, slVars, runVars, rowVars>>

---------------------------------------------------------------------------
(* Program constants *)

MAX_RETRIES == 5
GLOBAL_COOLDOWN_SEC == 6
WAIT_SLICE == 1          \* time.sleep(min(1.0, remaining))
RETRY_SLEEP == 1         \* time.sleep(1.5): at least one tick of the clock

RETRY_PER_REQUEST == 6
SCRAPE_PASSES_DAILY == 5
SCRAPE_PASSES_ADV == 7
RETRIES == 2

(* Bounds of the model *)
MaxMovies == 2
MaxShows == 2
MaxBatch == 2            \* rows one run fetches
MaxSeatsInShow == 3      \* seats of a Nepal show payload
MaxCategories == 2       \* seat categories of a Sri Lanka show payload
MaxMerged == 2           \* rows handed to the summary builder
MaxListed == 2           \* shows of a movie-info response
MaxDays == 3             \* days from START_YEAR-01-01 on that have a date

Workers == {"A", "B"}
Callers == {"main"} \cup Workers
Free == "free"

NepalScripts == {"nepal_daily", "nepal_adv"}
SriLankaScripts == {"sl_daily", "sl_adv"}
Scripts == NepalScripts \cup SriLankaScripts

\* the event variants (child events) the movie list can name
Events == {"e1", "e2"}
NoJob == "none"
\* a path at which no file exists
NoFile == [exists |-> FALSE]
\* a file opened with "w" whose json.dump has not completed: not a JSON document
Truncated == [exists |-> TRUE, truncated |-> TRUE]

\* ShowIdentity: show_id (Nepal), (eventCode, venue, sessionId) (Sri Lanka)
Keys == {"k1", "k2"}
\* a row that has no identity key
NoKey == "none"
\* what a row holds besides its identity: counts, gross, occupancy, flags
Vals == {1, 2}
\* Sri Lanka daily: parse_time of a fetched row, as <<minutes from now to the
\* showtime>>, or NoTime when its time does not parse
CUT_OFF_MINUTES == 200
NEPAL_CUT_OFF_MINUTES == 200
NoTime == <<>>
Mins == {NoTime, <<-1>>, <<CUT_OFF_MINUTES - 1>>, <<CUT_OFF_MINUTES>>}

MergingScripts == {"nepal_daily", "nepal_adv", "sl_daily"}
\* the scripts that define atomic_dump and write both files with it
AtomicScripts == {"nepal_daily", "nepal_adv", "sl_daily"}

ScrapePasses(s) == IF s = "sl_adv" THEN SCRAPE_PASSES_ADV ELSE SCRAPE_PASSES_DAILY

\* what one Transport Layer call can end in: a 2xx response, HTTP 429,
\* another status that is not ok, a connection error or timeout
Outcomes == {"ok", "429", "http", "net"}

Min(a, b) == IF a <= b THEN a ELSE b
Dec(n) == IF n > 0 THEN n - 1 ELSE 0

\* the locals of a safe_request that has returned or raised are dead
LeaveRequest(c) ==
    /\ retries' = [retries EXCEPT ![c] = 0]
    /\ calls' = [calls EXCEPT ![c] = 0]
    /\ outcome' = [outcome EXCEPT ![c] = "none"]
    /\ prev' = [prev EXCEPT ![c] = "none"]

Terminal == {"ret", "raise_429", "raise_http", "raise_net"}
SlTerminal == {"sl_ret", "sl_none"}
InFlight == {"inflight", "token_inflight", "sl_inflight"}

---------------------------------------------------------------------------
(* Global cooldown governor (Nepal scripts) *)

\* wait_if_global_cooldown: read the time left under the lock; not expired:
\* time.sleep(min(1.0, remaining))
WaitRead(c) ==
    /\ pc[c] = "wait_read"
    /\ lock = Free
    /\ LET remaining == cooldown_until
       IN IF remaining <= 0
          THEN /\ pc' = [pc EXCEPT ![c] = "wait_flag"]
               /\ timer' = timer
          ELSE /\ pc' = [pc EXCEPT ![c] = "wait_sleep"]
               /\ timer' = [timer EXCEPT ![c] = Min(WAIT_SLICE, remaining)]
    /\ UNCHANGED <<script, rowVars, slVars, runVars, retries, calls, outcome, prev, cdVars,
                   mainVars>>

\* expired: test the flag, return if it is clear
WaitFlag(c) ==
    /\ pc[c] = "wait_flag"
    /\ IF cooldown_active
       THEN /\ pc' = [pc EXCEPT ![c] = "wait_clear"]
            /\ prev' = prev
       ELSE /\ pc' = [pc EXCEPT ![c] = "call"]
            /\ prev' = [prev EXCEPT ![c] = "wait"]
    /\ UNCHANGED <<script, rowVars, slVars, runVars, retries, calls, timer, outcome,
                   cdVars, mainVars>>

\* log the resume and clear the flag (the lock is not held here), return
WaitClear(c) ==
    /\ pc[c] = "wait_clear"
    /\ cooldown_active' = FALSE
    /\ pc' = [pc EXCEPT ![c] = "call"]
    /\ prev' = [prev EXCEPT ![c] = "wait"]
    /\ UNCHANGED <<script, rowVars, slVars, runVars, retries, calls, timer, outcome,
                   lock, cooldown_until, mainVars>>

\* variant: the wait returns after one sleep without reading the deadline again
WaitWakeReturn(c) ==
    /\ pc[c] = "wait_sleep"
    /\ timer[c] = 0
    /\ pc' = [pc EXCEPT ![c] = "call"]
    /\ prev' = [prev EXCEPT ![c] = "wait"]
    /\ UNCHANGED <<script, rowVars, slVars, runVars, retries, calls, timer, outcome, cdVars,
                   mainVars>>

\* the sleep is over: loop
WaitWake(c) ==
    /\ pc[c] = "wait_sleep"
    /\ timer[c] = 0
    /\ pc' = [pc EXCEPT ![c] = "wait_read"]
    /\ UNCHANGED <<script, rowVars, slVars, runVars, reqVars, cdVars, mainVars>>

\* trigger_global_cooldown: take the lock, set the deadline
TriggerLock(c) ==
    /\ pc[c] = "trig_lock"
    /\ lock = Free
    /\ lock' = c
    /\ cooldown_until' = GLOBAL_COOLDOWN_SEC
    /\ pc' = [pc EXCEPT ![c] = "trig_flag"]
    /\ UNCHANGED <<script, rowVars, slVars, runVars, retries, calls, timer, outcome, prev,
                   cooldown_active, mainVars>>

\* variant: the trigger returns without releasing cooldown_lock
TriggerFlagKeepLock(c) ==
    /\ pc[c] = "trig_flag"
    /\ lock = c
    /\ cooldown_active' = TRUE
    /\ prev' = [prev EXCEPT ![c] = "trigger"]
    /\ pc' = [pc EXCEPT ![c] = "budget_429"]
    /\ UNCHANGED <<script, rowVars, slVars, runVars, retries, calls, timer, outcome,
                   lock, cooldown_until, mainVars>>

\* log and set the flag unless it is set already, release the lock
TriggerFlag(c) ==
    /\ pc[c] = "trig_flag"
    /\ lock = c
    /\ IF ~cooldown_active
       THEN cooldown_active' = TRUE
       ELSE cooldown_active' = cooldown_active
    /\ lock' = Free
    /\ prev' = [prev EXCEPT ![c] = "trigger"]
    /\ pc' = [pc EXCEPT ![c] = "budget_429"]
    /\ UNCHANGED <<script, rowVars, slVars, runVars, retries, calls, timer, outcome,
                   cooldown_until, mainVars>>

---------------------------------------------------------------------------
(* safe_request (Nepal scripts) *)

\* retries = MAX_RETRIES
SrStart(c) ==
    /\ pc[c] = "sr_start"
    /\ retries' = [retries EXCEPT ![c] = MAX_RETRIES]
    /\ calls' = [calls EXCEPT ![c] = 0]
    /\ outcome' = [outcome EXCEPT ![c] = "none"]
    /\ prev' = [prev EXCEPT ![c] = "none"]
    /\ pc' = [pc EXCEPT ![c] = "wait_read"]
    /\ UNCHANGED <<script, rowVars, slVars, runVars, timer, cdVars, mainVars>>

\* requests.request(...) is issued
Call(c) ==
    /\ pc[c] = "call"
    /\ calls' = [calls EXCEPT ![c] = calls[c] + 1]
    /\ prev' = [prev EXCEPT ![c] = "call"]
    /\ pc' = [pc EXCEPT ![c] = "inflight"]
    /\ UNCHANGED <<script, rowVars, slVars, runVars, retries, timer, outcome, cdVars,
                   mainVars>>

\* variant: the budget is checked before the cooldown is triggered
AfterCallBudgetFirst(o, r) ==
    CASE o = "ok" -> "ret"
      [] o = "429" -> IF r <= 0 THEN "raise_429" ELSE "trig_lock"
      [] o = "http" -> IF r <= 0 THEN "raise_http" ELSE "retry_sleep"
      [] o = "net" -> IF r <= 0 THEN "raise_net" ELSE "retry_sleep"

\* variant: every status that is not ok triggers the cooldown
AfterCallAnyStatusTriggers(o, r) ==
    CASE o = "ok" -> "ret"
      [] o = "429" -> "trig_lock"
      [] o = "http" -> "trig_lock"
      [] o = "net" -> IF r <= 0 THEN "raise_net" ELSE "retry_sleep"

\* where safe_request goes on a response or a failure of the call, r retries
\* being left: return; trigger the cooldown; or, for a status that is not ok
\* and for ConnectionError/Timeout, raise when no retry is left and else
\* time.sleep(1.5)
AfterCall(o, r) ==
    CASE o = "ok" -> "ret"
      [] o = "429" -> "trig_lock"
      [] o = "http" -> IF r <= 0 THEN "raise_http" ELSE "retry_sleep"
      [] o = "net" -> IF r <= 0 THEN "raise_net" ELSE "retry_sleep"

\* the call returns or raises (within TIMEOUT)
Response(c) ==
    /\ pc[c] = "inflight"
    /\ \E o \in Outcomes :
          /\ outcome' = [outcome EXCEPT ![c] = o]
          /\ pc' = [pc EXCEPT ![c] = AfterCall(o, retries[c])]
          /\ timer' = [timer EXCEPT ![c] =
                          IF AfterCall(o, retries[c]) = "retry_sleep"
                          THEN RETRY_SLEEP ELSE 0]
    /\ UNCHANGED <<script, rowVars, slVars, runVars, retries, calls, prev, cdVars,
                   mainVars>>

\* variant: the retry does not use up the budget
RetriesKept(r) == r

\* retries -= 1
RetriesAfter(r) == r - 1

\* 429, after the trigger: raise when no retry is left, else retry at once
Budget429(c) ==
    /\ pc[c] = "budget_429"
    /\ IF retries[c] <= 0
       THEN /\ pc' = [pc EXCEPT ![c] = "raise_429"]
            /\ UNCHANGED <<retries, outcome, prev>>
       ELSE /\ retries' = [retries EXCEPT ![c] = RetriesAfter(retries[c])]
            /\ outcome' = [outcome EXCEPT ![c] = "none"]
            /\ prev' = [prev EXCEPT ![c] = "none"]
            /\ pc' = [pc EXCEPT ![c] = "wait_read"]
    /\ UNCHANGED <<script, rowVars, slVars, runVars, calls, timer, cdVars, mainVars>>

\* variant: the retry after the 1.5 s goes straight to the request
RetryWakeNoWait(c) ==
    /\ pc[c] = "retry_sleep"
    /\ timer[c] = 0
    /\ retries' = [retries EXCEPT ![c] = retries[c] - 1]
    /\ outcome' = [outcome EXCEPT ![c] = "none"]
    /\ prev' = [prev EXCEPT ![c] = "none"]
    /\ pc' = [pc EXCEPT ![c] = "call"]
    /\ UNCHANGED <<script, rowVars, slVars, runVars, calls, timer, cdVars, mainVars>>

\* the 1.5 s are over: retries -= 1, loop
RetryWake(c) ==
    /\ pc[c] = "retry_sleep"
    /\ timer[c] = 0
    /\ retries' = [retries EXCEPT ![c] = RetriesAfter(retries[c])]
    /\ outcome' = [outcome EXCEPT ![c] = "none"]
    /\ prev' = [prev EXCEPT ![c] = "none"]
    /\ pc' = [pc EXCEPT ![c] = "wait_read"]
    /\ UNCHANGED <<script, rowVars, slVars, runVars, calls, timer, cdVars, mainVars>>

---------------------------------------------------------------------------
(* main() of the Nepal scripts, as far as it issues requests *)

\* init_token_once: requests.get(TOKEN_URL) is issued
TokenCall ==
    /\ script \in NepalScripts
    /\ stage = "token"
    /\ pc["main"] = "begin"
    /\ pc' = [pc EXCEPT !["main"] = "token_inflight"]
    /\ UNCHANGED <<script, rowVars, slVars, runVars, reqVars, cdVars, mainVars>>

\* variant: a failed token request is let through and the run goes on
\* without token
TokenResponseGoesOn ==
    /\ pc["main"] = "token_inflight"
    /\ \E o \in Outcomes :
          /\ outcome' = [outcome EXCEPT !["main"] = o]
          /\ AUTH_TOKEN' = IF o = "ok" THEN "token" ELSE AUTH_TOKEN
          /\ stage' = "list"
          /\ pc' = [pc EXCEPT !["main"] = "sr_start"]
    /\ UNCHANGED <<script, rowVars, slVars, runVars, retries, calls, timer, prev,
                   cdVars, movies_left, queue, results, total_shows>>

\* the token request returns; raise_for_status() or the token is stored
TokenResponse ==
    /\ pc["main"] = "token_inflight"
    /\ \E o \in Outcomes :
          /\ outcome' = [outcome EXCEPT !["main"] = o]
          /\ IF o = "ok"
             THEN /\ AUTH_TOKEN' = "token"
                  /\ stage' = "list"
                  /\ pc' = [pc EXCEPT !["main"] = "sr_start"]
             ELSE /\ AUTH_TOKEN' = AUTH_TOKEN
                  /\ stage' = "aborted"
                  /\ pc' = [pc EXCEPT !["main"] = "exit"]
    /\ UNCHANGED <<script, rowVars, slVars, runVars, retries, calls, timer, prev,
                   cdVars, movies_left, queue, results, total_shows>>

\* fetch_movie_list: safe_request returned or raised
MovieList ==
    /\ stage = "list"
    /\ pc["main"] \in Terminal
    /\ IF pc["main"] = "ret"
       THEN \E n \in 0..MaxMovies :
               /\ movies_left' = n
               /\ IF n = 0
                  THEN /\ stage' = "persist"
                       /\ pc' = [pc EXCEPT !["main"] = "exit"]
                  ELSE /\ stage' = "info"
                       /\ pc' = [pc EXCEPT !["main"] = "sr_start"]
       ELSE /\ stage' = "aborted"
            /\ pc' = [pc EXCEPT !["main"] = "exit"]
            /\ movies_left' = movies_left
    /\ LeaveRequest("main")
    /\ UNCHANGED <<script, rowVars, slVars, runVars, timer, cdVars, AUTH_TOKEN, queue,
                   results, total_shows>>

\* main goes on to the next movie of movie_list, or to the merge
NextMovie(left) ==
    /\ movies_left' = left
    /\ IF left > 0
       THEN /\ stage' = "info"
            /\ pc' = [pc EXCEPT !["main"] = "sr_start"]
       ELSE /\ stage' = "persist"
            /\ pc' = [pc EXCEPT !["main"] = "exit"]

\* process_single_movie: the movie-info safe_request returned or raised;
\* the shows in scope are submitted to the pool
MovieInfo ==
    /\ stage = "info"
    /\ pc["main"] \in Terminal
    /\ IF pc["main"] = "ret"
       THEN \E k \in 0..MaxShows :
               IF k = 0
               THEN /\ NextMovie(movies_left - 1)
                    /\ UNCHANGED <<queue, results, total_shows>>
               ELSE /\ stage' = "pool"
                    /\ queue' = k
                    /\ results' = 0
                    /\ total_shows' = k
                    /\ pc' = [pc EXCEPT !["main"] = "join"]
                    /\ movies_left' = movies_left
       ELSE /\ stage' = "aborted"
            /\ pc' = [pc EXCEPT !["main"] = "exit"]
            /\ UNCHANGED <<movies_left, queue, results, total_shows>>
    /\ LeaveRequest("main")
    /\ UNCHANGED <<script, rowVars, slVars, runVars, timer, cdVars, AUTH_TOKEN>>

\* a pool thread takes a submitted job: fetch_show_summary calls safe_request
Take(w) ==
    /\ script \in NepalScripts
    /\ stage = "pool"
    /\ pc[w] = "idle"
    /\ queue > 0
    /\ queue' = queue - 1
    /\ pc' = [pc EXCEPT ![w] = "sr_start"]
    /\ UNCHANGED <<script, rowVars, slVars, runVars, reqVars, cdVars, stage, AUTH_TOKEN, movies_left,
                   results, total_shows>>

\* fetch_show_summary returns a row (a skipped row when safe_request raised)
\* and main appends it to results
Finish(w) ==
    /\ script \in NepalScripts
    /\ pc[w] \in Terminal
    /\ results' = results + 1
    /\ total_shows' = total_shows
    /\ pc' = [pc EXCEPT ![w] = "idle"]
    /\ LeaveRequest(w)
    /\ UNCHANGED <<script, rowVars, slVars, runVars, timer, cdVars, stage, AUTH_TOKEN,
                   movies_left, queue>>

\* variant: main leaves the pool as soon as every job is taken
JoinEarly ==
    /\ script \in NepalScripts
    /\ stage = "pool"
    /\ queue = 0
    /\ NextMovie(movies_left - 1)
    /\ UNCHANGED <<script, rowVars, slVars, runVars, reqVars, cdVars, AUTH_TOKEN, queue,
                   results, total_shows>>

\* the pool is shut down once every job has completed
Join ==
    /\ script \in NepalScripts
    /\ stage = "pool"
    /\ queue = 0
    /\ \A w \in Workers : pc[w] = "idle"
    /\ NextMovie(movies_left - 1)
    /\ UNCHANGED <<script, rowVars, slVars, runVars, reqVars, cdVars, AUTH_TOKEN, queue,
                   results, total_shows>>

---------------------------------------------------------------------------
(* safe_request and the multi-pass loop of the Sri Lanka scripts *)

\* for _ in range(RETRY_PER_REQUEST): the next scraper.get/post is issued,
\* or the loop is over and (None, last_err) is returned
SlLoop(c) ==
    /\ pc[c] = "sl_loop"
    /\ IF calls[c] < RETRY_PER_REQUEST
       THEN /\ calls' = [calls EXCEPT ![c] = calls[c] + 1]
            /\ pc' = [pc EXCEPT ![c] = "sl_inflight"]
       ELSE /\ calls' = calls
            /\ pc' = [pc EXCEPT ![c] = "sl_none"]
    /\ UNCHANGED <<script, rowVars, runVars, slVars, retries, timer, outcome, prev,
                   cdVars, mainVars>>

\* Sri Lanka: a response of status 200 whose body r.json() cannot parse is
\* one more outcome, caught by except Exception as any other failure
SlOutcomes == Outcomes \cup {"badjson"}

\* the call returns or raises: status 200 returns (r.json(), None), anything
\* else sets last_err and goes round the loop
SlResponse(c) ==
    /\ pc[c] = "sl_inflight"
    /\ \E o \in SlOutcomes :
          /\ outcome' = [outcome EXCEPT ![c] = o]
          /\ pc' = [pc EXCEPT ![c] = IF o = "ok" THEN "sl_ret" ELSE "sl_loop"]
    /\ UNCHANGED <<script, rowVars, runVars, slVars, retries, calls, timer, prev,
                   cdVars, mainVars>>

\* get_movies() returned: expanded_movies is built (empty when the request
\* failed), pending = expanded_movies.copy()
SlMovies ==
    /\ stage = "movies"
    /\ pc["main"] \in SlTerminal
    /\ \E expanded \in (IF pc["main"] = "sl_ret" THEN SUBSET Events ELSE {{}}) :
          pending' = expanded
    /\ attempt' = 1
    /\ stage' = "pass_check"
    /\ pc' = [pc EXCEPT !["main"] = "loop"]
    /\ LeaveRequest("main")
    /\ UNCHANGED <<script, rowVars, runVars, timer, cdVars, AUTH_TOKEN, movies_left,
                   queue, results, total_shows, next_round, todo, job, added, result>>

\* for attempt in range(1, SCRAPE_PASSES + 1): if not pending: break;
\* else the pending variants are submitted to a new pool
SlPassStart ==
    /\ stage = "pass_check"
    /\ IF attempt > ScrapePasses(script) \/ pending = {}
       THEN /\ stage' = "persist"
            /\ pc' = [pc EXCEPT !["main"] = "exit"]
            /\ UNCHANGED <<todo, next_round>>
       ELSE /\ stage' = "pass"
            /\ todo' = pending
            /\ next_round' = {}
            /\ pc' = pc
    /\ UNCHANGED <<script, rowVars, runVars, reqVars, cdVars, AUTH_TOKEN, movies_left,
                   queue, results, total_shows, attempt, pending, job, added, result>>

\* a pool thread takes a submitted variant: scrape_event calls get_showtimes
SlTake(w) ==
    /\ stage \in {"pass", "aborting"}
    /\ pc[w] = "idle"
    /\ \E e \in todo :
          /\ job' = [job EXCEPT ![w] = e]
          /\ todo' = todo \ {e}
    /\ calls' = [calls EXCEPT ![w] = 0]
    /\ outcome' = [outcome EXCEPT ![w] = "none"]
    /\ pc' = [pc EXCEPT ![w] = "sl_loop"]
    /\ UNCHANGED <<script, rowVars, runVars, retries, timer, prev, cdVars, mainVars,
                   attempt, pending, next_round, added, result>>

\* what scrape_event can come to once get_showtimes has returned: no data
\* (the request failed or the payload is empty), no venue listed for the
\* date, rows (ok), or an exception raised in flatten on a malformed show
Results(p) ==
    IF p = "sl_ret" THEN {"no_data", "no_venues", "rows", "raised"}
    ELSE {"no_data"}

\* (rows, ok) of scrape_event: ok only with rows of the venues of the date
Ok(res) == res = "rows"

\* variant: a job stays in the next round whatever it returned
CarriedAlways(res) == TRUE

\* if ok: all_rows.extend(rows) else: next_round.append(tasks[job])
Carried(res) == ~Ok(res)

\* scrape_event is over and main takes job.result(): the rows of an ok job
\* are added to all_rows, a job that is not ok is appended to next_round, and
\* an exception of scrape_event is raised again in main and ends the loop;
\* after that the results of the jobs still running are dropped
SlScraped(w) ==
    /\ script \in SriLankaScripts
    /\ pc[w] \in SlTerminal
    /\ IF stage = "aborting"
       THEN UNCHANGED <<stage, added, next_round, result>>
       ELSE \E res \in Results(pc[w]) :
               /\ result' = [result EXCEPT ![job[w]] = res]
               /\ stage' = IF res = "raised" THEN "aborting" ELSE stage
               /\ added' = IF Ok(res)
                           THEN [added EXCEPT ![job[w]] = added[job[w]] + 1]
                           ELSE added
               /\ next_round' = IF res # "raised" /\ Carried(res)
                                THEN next_round \cup {job[w]}
                                ELSE next_round
    /\ job' = [job EXCEPT ![w] = NoJob]
    /\ LeaveRequest(w)
    /\ pc' = [pc EXCEPT ![w] = "idle"]
    /\ UNCHANGED <<script, rowVars, runVars, timer, cdVars, AUTH_TOKEN, movies_left, queue,
                   results, total_shows, attempt, pending, todo>>

\* variant: the next pass starts while jobs of this one are still running
SlPassEndEarly ==
    /\ stage = "pass"
    /\ todo = {}
    /\ pending' = next_round
    /\ attempt' = attempt + 1
    /\ result' = [e \in Events |-> "none"]
    /\ stage' = "pass_check"
    /\ UNCHANGED <<script, rowVars, runVars, pc, reqVars, cdVars, AUTH_TOKEN,
                   movies_left, queue, results, total_shows, next_round, todo, job, added>>

\* every job of the pass has completed: pending = next_round
SlPassEnd ==
    /\ stage = "pass"
    /\ todo = {}
    /\ \A w \in Workers : pc[w] = "idle"
    /\ pending' = next_round
    /\ attempt' = attempt + 1
    /\ result' = [e \in Events |-> "none"]
    /\ stage' = "pass_check"
    /\ UNCHANGED <<script, rowVars, runVars, pc, reqVars, cdVars, AUTH_TOKEN,
                   movies_left, queue, results, total_shows, next_round, todo, job, added>>

\* the pool is shut down (the submitted jobs run to their end) and the
\* exception ends the script: nothing is written
SlAbort ==
    /\ stage = "aborting"
    /\ todo = {}
    /\ \A w \in Workers : pc[w] = "idle"
    /\ stage' = "aborted"
    /\ pc' = [pc EXCEPT !["main"] = "exit"]
    /\ UNCHANGED <<script, rowVars, runVars, reqVars, cdVars, AUTH_TOKEN, movies_left,
                   queue, results, total_shows, slVars>>

\* the clock passes to the next second
Tick ==
    /\ \/ cooldown_until > 0
       \/ \E c \in Callers : timer[c] > 0
    /\ cooldown_until' = Dec(cooldown_until)
    /\ timer' = [c \in Callers |-> Dec(timer[c])]
    /\ UNCHANGED <<script, rowVars, slVars, runVars, pc, retries, calls, outcome, prev,
                   lock, cooldown_active, mainVars>>

---------------------------------------------------------------------------
(* The fetch view *)

\* the data view at rest
NoPayload == [none |-> TRUE]
NoRow == [none |-> TRUE]

NoSummary == [none |-> TRUE]

NotPicked == [done |-> FALSE]

\* the dates of the Japan scraper: day 1 is START_YEAR-01-01
Days == 1..MaxDays
NotCollected == [done |-> FALSE]

ScraperIdle ==
    /\ today = 0
    /\ files = [d \in Days |-> NoFile]
    /\ dates = NotCollected
    /\ status = [d \in Days |-> "idle"]
    /\ attempts = [d \in Days |-> RETRIES]
    /\ cursor = 0

CutoffIdle ==
    /\ listed = <<>>
    /\ dispatched = NotPicked
    /\ ScraperIdle

SummaryIdle ==
    /\ merged = <<>>
    /\ summary = NoSummary
    /\ CutoffIdle

RowIdle ==
    /\ payload = NoPayload
    /\ extracted = NoRow
    /\ SummaryIdle

RunIdle ==
    /\ rpc = "idle"
    /\ existing_rows = <<>>
    /\ new_rows = <<>>
    /\ scraped = <<>>
    /\ all_rows = <<>>
    /\ detail_at_start = NoFile
    /\ detail_file = NoFile
    /\ summary_file = NoFile
    /\ detail_tmp = NoFile
    /\ summary_tmp = NoFile

\* the scripts of the fetch view: nepal9thjanadv_2day.py has the governor,
\* safe_request and the pool of nepaldailybo.py line by line
FetchScripts == {"nepal_daily", "sl_daily", "sl_adv"}

\* the fetch view at rest
FetchIdle ==
    /\ pc = [c \in Callers |-> "idle"]
    /\ retries = [c \in Callers |-> 0]
    /\ calls = [c \in Callers |-> 0]
    /\ timer = [c \in Callers |-> 0]
    /\ outcome = [c \in Callers |-> "none"]
    /\ prev = [c \in Callers |-> "none"]
    /\ lock = Free
    /\ cooldown_until = 0
    /\ cooldown_active = FALSE
    /\ stage = "idle"
    /\ AUTH_TOKEN = "None"
    /\ movies_left = 0
    /\ queue = 0
    /\ results = 0
    /\ total_shows = 0
    /\ attempt = 0
    /\ pending = {}
    /\ next_round = {}
    /\ todo = {}
    /\ job = [w \in Workers |-> NoJob]
    /\ added = [e \in Events |-> 0]
    /\ result = [e \in Events |-> "none"]

fetchVars == <<pc, reqVars, cdVars, mainVars, slVars>>
fetchVarsButPending ==
    <<pc, reqVars, cdVars, mainVars, attempt, next_round, todo, job, added, result>>

InitFetch ==
    /\ script \in FetchScripts
    /\ pc = [c \in Callers |-> IF c # "main" THEN "idle"
                               ELSE IF script \in NepalScripts THEN "begin"
                               ELSE "sl_loop"]
    /\ retries = [c \in Callers |-> 0]
    /\ calls = [c \in Callers |-> 0]
    /\ timer = [c \in Callers |-> 0]
    /\ outcome = [c \in Callers |-> "none"]
    /\ prev = [c \in Callers |-> "none"]
    /\ lock = Free
    /\ cooldown_until = 0
    /\ cooldown_active = FALSE
    /\ stage = IF script \in NepalScripts THEN "token" ELSE "movies"
    /\ AUTH_TOKEN = "None"
    /\ movies_left = 0
    /\ queue = 0
    /\ results = 0
    /\ total_shows = 0
    /\ attempt = 0
    /\ pending = {}
    /\ next_round = {}
    /\ todo = {}
    /\ job = [w \in Workers |-> NoJob]
    /\ added = [e \in Events |-> 0]
    /\ result = [e \in Events |-> "none"]
    /\ RunIdle
    /\ RowIdle

SafeRequestStep(c) ==
    \/ SrStart(c) \/ WaitRead(c) \/ WaitFlag(c) \/ WaitClear(c) \/ WaitWake(c)
    \/ Call(c) \/ Response(c) \/ TriggerLock(c) \/ TriggerFlag(c)
    \/ Budget429(c) \/ RetryWake(c)

MainStep == TokenCall \/ TokenResponse \/ MovieList \/ MovieInfo \/ Join

WorkerStep(w) == Take(w) \/ Finish(w)

SlRequestStep(c) == SlLoop(c) \/ SlResponse(c)

SlMainStep == SlMovies \/ SlPassStart \/ SlPassEnd \/ SlAbort

SlWorkerStep(w) == SlTake(w) \/ SlScraped(w)

NextFetch ==
    \/ \E c \in Callers : SafeRequestStep(c)
    \/ MainStep
    \/ \E w \in Workers : WorkerStep(w)
    \/ \E c \in Callers : SlRequestStep(c)
    \/ SlMainStep
    \/ \E w \in Workers : SlWorkerStep(w)
    \/ Tick

SpecFetch == InitFetch /\ [][NextFetch]_vars

\* the scheduler runs some thread that can run, and time passes
FairFetch == SpecFetch /\ WF_vars(NextFetch)

InSafeRequest(c) ==
    pc[c] \in {"sr_start", "wait_read", "wait_flag", "wait_clear", "wait_sleep",
               "call", "inflight", "trig_lock", "trig_flag", "budget_429",
               "retry_sleep"}


---------------------------------------------------------------------------
(* The data view: load, fetch, merge, persist *)

\* the rows a run of script s can fetch (only the Sri Lanka daily script
\* looks at the time of a row): at most MaxBatch rows, identities may repeat
\* the row fetch_show_summary returns when the fetch raised: the show's
\* identity, counts, gross and occupancy 0, "skipped": True
SkippedRows == {[key |-> k, val |-> 0, mins |-> NoTime, skipped |-> TRUE] : k \in Keys}

IsSkipped(r) == "skipped" \in DOMAIN r

Rows(s) ==
    [key : Keys, val : Vals, mins : IF s = "sl_daily" THEN Mins ELSE {NoTime}]
    \cup (IF s \in NepalScripts THEN SkippedRows ELSE {})
Batches(s) == UNION {[1..n -> Rows(s)] : n \in 0..MaxBatch}

KeysOf(rows) == {rows[i].key : i \in 1..Len(rows)}

\* Sri Lanka: the eventCode in the identity (eventCode, venue, sessionId)
EventOf(k) == IF k = "k1" THEN "e1" ELSE "e2"

\* variant: the rows of a variant that is carried on are collected too
FromAnyVariant(batch, P) == TRUE

\* if ok: all_rows.extend(rows) else: next_round.append(tasks[job]) -- the
\* rows collected are rows of variants that are not left pending
FromOkVariants(batch, P) ==
    \A i \in 1..Len(batch) : EventOf(batch[i].key) \notin P

\* variant: a key that is present keeps its row
PutIfAbsent(m, row) ==
    IF \E i \in 1..Len(m) : m[i].key = row.key THEN m ELSE Append(m, row)

\* variant: every row is appended, whatever its key
PutAppend(m, row) == Append(m, row)

\* variant: a skipped row does not take the place of a stored row
PutUnlessSkipped(m, row) ==
    IF \E i \in 1..Len(m) : m[i].key = row.key
    THEN [i \in 1..Len(m) |->
             IF m[i].key = row.key /\ ~IsSkipped(row) THEN row ELSE m[i]]
    ELSE Append(m, row)

\* data_map[key] = s on a dict kept in insertion order: an existing key keeps
\* its place and takes the new row, a new key goes to the end
Put(m, row) ==
    IF \E i \in 1..Len(m) : m[i].key = row.key
    THEN [i \in 1..Len(m) |-> IF m[i].key = row.key THEN row ELSE m[i]]
    ELSE Append(m, row)

RECURSIVE PutAll(_, _)
PutAll(m, rows) ==
    IF rows = <<>> THEN m ELSE PutAll(Put(m, Head(rows)), Tail(rows))

\* variant: the fetched rows are appended to the loaded ones
MergeAppend(D, N) == D \o N

\* variant: the map is built from the fetched rows alone
MergeFreshOnly(D, N) == PutAll(<<>>, N)

\* data_map = {key(s): s for s in existing_rows}; for s in new_rows:
\* data_map[key(s)] = s; all_rows = list(data_map.values())
Merge(D, N) == PutAll(PutAll(<<>>, D), N)

\* variant: the old DB is never read
LoadNothing(file) == <<>>

\* json.load(open(detail_file)).get("shows", []), [] when there is no file
\* and when json.load raises ("Old DB corrupted, starting fresh")
Load(file) ==
    IF ~file.exists \/ file = Truncated \/ "shows" \notin DOMAIN file THEN <<>>
    ELSE file.shows

\* the document written to the Detailed file
DetailDoc(rows) == [exists |-> TRUE, shows |-> rows]

\* what the Summary holds of the rows aggregated: their number and the sum
\* of what they hold
RECURSIVE SumVals(_)
SumVals(rows) == IF rows = <<>> THEN 0 ELSE Head(rows).val + SumVals(Tail(rows))

SummaryDoc(rows) ==
    [exists |-> TRUE, total_shows |-> Len(rows), totals |-> SumVals(rows)]

\* variant: a show that has started is out, as in the Nepal filter
IsWithinCutoffNotStarted(row) ==
    row.mins = NoTime \/ (0 <= row.mins[1] /\ row.mins[1] < CUT_OFF_MINUTES)

\* is_within_cutoff: a time that does not parse is in, else mins_left < 200
IsWithinCutoff(row) == row.mins = NoTime \/ row.mins[1] < CUT_OFF_MINUTES

RECURSIVE Eligible(_)
Eligible(rows) ==
    IF rows = <<>> THEN <<>>
    ELSE IF IsWithinCutoff(Head(rows))
         THEN <<Head(rows)>> \o Eligible(Tail(rows))
         ELSE Eligible(Tail(rows))

\* the old DB is loaded (the Sri Lanka advance script loads nothing)
RunLoad ==
    /\ rpc = "idle"
    /\ existing_rows' = IF script = "sl_adv" THEN <<>> ELSE Load(detail_file)
    /\ detail_at_start' = detail_file
    /\ rpc' = "fetch"
    /\ UNCHANGED <<script, rowVars, fetchVars, new_rows, scraped, all_rows, fileVars>>

\* the fetch phase ends with the rows it collected and, in the Sri Lanka
\* daily script, with the variants still pending after the last pass
RunFetch ==
    /\ rpc = "fetch"
    /\ \E batch \in Batches(script) :
          \E P \in (IF script = "sl_daily" THEN SUBSET Events ELSE {{}}) :
             /\ FromOkVariants(batch, P)
             /\ pending' = P
             /\ new_rows' = batch
             /\ scraped' = IF script = "sl_daily" THEN batch ELSE <<>>
    /\ rpc' = IF script = "sl_daily" THEN "cutoff"
              ELSE IF script = "sl_adv" THEN "dedupe" ELSE "merge"
    /\ UNCHANGED <<script, rowVars, fetchVarsButPending, existing_rows, all_rows,
                   detail_at_start, fileVars>>

\* Nepal: the token, the movie list or a movie-info request failed: main()
\* ends with the exception, nothing is written
RunAbort ==
    /\ rpc = "fetch"
    /\ script \in NepalScripts
    /\ rpc' = "idle"
    /\ existing_rows' = <<>>
    /\ detail_at_start' = NoFile
    /\ UNCHANGED <<script, rowVars, fetchVars, new_rows, scraped, all_rows, fileVars>>

\* Sri Lanka daily: eligible_new = [s for s in all_rows if is_within_cutoff(s)]
RunCutoff ==
    /\ rpc = "cutoff"
    /\ new_rows' = Eligible(new_rows)
    /\ rpc' = "merge"
    /\ UNCHANGED <<script, rowVars, fetchVars, existing_rows, all_rows, detail_at_start,
                   fileVars, scraped>>

\* s["show_id"] (Sri Lanka: s["eventCode"], s["venue"], s["sessionId"]) of a
\* loaded row: a KeyError when the row has no such key
HasKey(r) == r.key # NoKey

\* variant: after the merge the Summary file is written first and last
RunMergeSummaryFirst ==
    /\ rpc = "merge"
    /\ \A i \in 1..Len(existing_rows) : HasKey(existing_rows[i])
    /\ all_rows' = Merge(existing_rows, new_rows)
    /\ rpc' = "dump_summary"
    /\ UNCHANGED <<script, rowVars, fetchVars, existing_rows, new_rows, scraped,
                   detail_at_start, fileVars>>

\* the merge by identity of the old rows and the fetched ones
RunMerge ==
    /\ rpc = "merge"
    /\ \A i \in 1..Len(existing_rows) : HasKey(existing_rows[i])
    /\ all_rows' = Merge(existing_rows, new_rows)
    /\ rpc' = "dump_detail"
    /\ UNCHANGED <<script, rowVars, fetchVars, existing_rows, new_rows, scraped,
                   detail_at_start, fileVars>>

\* the dict comprehension over existing_rows raises on a row without the
\* identity key: the run ends there with the exception, nothing is written
RunMergeFails ==
    /\ rpc = "merge"
    /\ \E i \in 1..Len(existing_rows) : ~HasKey(existing_rows[i])
    /\ rpc' = "idle"
    /\ existing_rows' = <<>>
    /\ new_rows' = <<>>
    /\ scraped' = <<>>
    /\ pending' = {}
    /\ detail_at_start' = NoFile
    /\ UNCHANGED <<script, rowVars, fetchVarsButPending, all_rows, fileVars>>

\* Sri Lanka advance: deduped = {key(s): s for s in all_rows}
RunDedupe ==
    /\ rpc = "dedupe"
    /\ all_rows' = PutAll(<<>>, new_rows)
    /\ rpc' = "dump_summary"
    /\ UNCHANGED <<script, rowVars, fetchVars, existing_rows, new_rows, scraped,
                   detail_at_start, fileVars>>

\* variant: every script writes its files in place
WritesInPlaceAlways(s) == TRUE

\* the Sri Lanka advance script writes with json.dump(..., open(path, "w"));
\* the other scripts write with atomic_dump
WritesInPlace(s) == s = "sl_adv"

\* where the run goes once a file is written: the merging scripts write the
\* Detailed file and then the Summary file, the Sri Lanka advance script the
\* Summary file and then the Detailed file
AfterDetail(s) == IF s = "sl_adv" THEN "idle" ELSE "dump_summary"
AfterSummary(s) == IF s = "sl_adv" THEN "dump_detail" ELSE "idle"

\* the run is over: its locals are gone
EndRun(next) ==
    IF next = "idle"
    THEN /\ existing_rows' = <<>>
         /\ new_rows' = <<>>
         /\ scraped' = <<>>
         /\ pending' = {}
         /\ all_rows' = <<>>
         /\ detail_at_start' = NoFile
    ELSE UNCHANGED <<existing_rows, new_rows, scraped, pending, all_rows, detail_at_start>>

\* open(tmp, "w"), or open(detail_file, "w") in place: the file is truncated
DetailOpen ==
    /\ rpc = "dump_detail"
    /\ IF WritesInPlace(script)
       THEN detail_file' = Truncated /\ detail_tmp' = detail_tmp
       ELSE detail_tmp' = Truncated /\ detail_file' = detail_file
    /\ rpc' = "write_detail"
    /\ UNCHANGED <<script, rowVars, fetchVars, existing_rows, new_rows, scraped, all_rows,
                   detail_at_start, summary_file, summary_tmp>>

\* json.dump has written the whole document and the file is closed
DetailWrite ==
    /\ rpc = "write_detail"
    /\ IF WritesInPlace(script)
       THEN /\ detail_file' = DetailDoc(all_rows)
            /\ detail_tmp' = detail_tmp
            /\ rpc' = AfterDetail(script)
            /\ EndRun(AfterDetail(script))
       ELSE /\ detail_tmp' = DetailDoc(all_rows)
            /\ detail_file' = detail_file
            /\ rpc' = "replace_detail"
            /\ UNCHANGED <<existing_rows, new_rows, scraped, pending, all_rows,
                           detail_at_start>>
    /\ UNCHANGED <<script, rowVars, fetchVarsButPending, summary_file, summary_tmp>>

\* os.replace(tmp, detail_file)
DetailReplace ==
    /\ rpc = "replace_detail"
    /\ detail_file' = detail_tmp
    /\ detail_tmp' = NoFile
    /\ rpc' = AfterDetail(script)
    /\ EndRun(AfterDetail(script))
    /\ UNCHANGED <<script, rowVars, fetchVarsButPending, summary_file, summary_tmp>>

\* variant: the summary is built from the rows fetched in this run
SummaryOfFreshRows == SummaryDoc(new_rows)

\* movies_summary = build_summary_by_movie(all_rows)
movies_summary == SummaryDoc(all_rows)

\* open(tmp, "w"), or open(summary_file, "w") in place: the file is truncated
SummaryOpen ==
    /\ rpc = "dump_summary"
    /\ IF WritesInPlace(script)
       THEN summary_file' = Truncated /\ summary_tmp' = summary_tmp
       ELSE summary_tmp' = Truncated /\ summary_file' = summary_file
    /\ rpc' = "write_summary"
    /\ UNCHANGED <<script, rowVars, fetchVars, existing_rows, new_rows, scraped, all_rows,
                   detail_at_start, detail_file, detail_tmp>>

\* json.dump has written the whole document and the file is closed
SummaryWrite ==
    /\ rpc = "write_summary"
    /\ IF WritesInPlace(script)
       THEN /\ summary_file' = movies_summary
            /\ summary_tmp' = summary_tmp
            /\ rpc' = AfterSummary(script)
            /\ EndRun(AfterSummary(script))
       ELSE /\ summary_tmp' = movies_summary
            /\ summary_file' = summary_file
            /\ rpc' = "replace_summary"
            /\ UNCHANGED <<existing_rows, new_rows, scraped, pending, all_rows,
                           detail_at_start>>
    /\ UNCHANGED <<script, rowVars, fetchVarsButPending, detail_file, detail_tmp>>

\* os.replace(tmp, summary_file)
SummaryReplace ==
    /\ rpc = "replace_summary"
    /\ summary_file' = summary_tmp
    /\ summary_tmp' = NoFile
    /\ rpc' = AfterSummary(script)
    /\ EndRun(AfterSummary(script))
    /\ UNCHANGED <<script, rowVars, fetchVarsButPending, detail_file, detail_tmp>>

\* the process is killed at some point of a run: its locals are gone, the
\* files stay as they are
Kill ==
    /\ rpc \notin {"idle", "killed"}
    /\ rpc' = "killed"
    /\ EndRun("idle")
    /\ UNCHANGED <<script, rowVars, fetchVarsButPending, fileVars>>

\* a Detailed file json.load cannot parse (left by something else than a run)
Unparseable == [exists |-> TRUE, garbage |-> TRUE]

\* a Detailed file json.load reads as an object without "shows"
NoShowsDoc == [exists |-> TRUE, noshows |-> TRUE]

\* a Detailed file whose shows are rows without the identity key
KeylessDoc == [exists |-> TRUE, shows |-> <<[key |-> NoKey, val |-> 1, mins |-> NoTime]>>]

\* the Detailed file the first run may find: none, an unparseable one, or a
\* parseable one of another shape (the Sri Lanka advance script reads none)
InitialFiles(s) ==
    IF s \in MergingScripts THEN {NoFile, Unparseable, NoShowsDoc, KeylessDoc}
    ELSE {NoFile}

InitRun ==
    /\ script \in Scripts
    /\ FetchIdle
    /\ RowIdle
    /\ rpc = "idle"
    /\ existing_rows = <<>>
    /\ new_rows = <<>>
    /\ scraped = <<>>
    /\ all_rows = <<>>
    /\ detail_at_start = NoFile
    /\ detail_file \in InitialFiles(script)
    /\ summary_file = NoFile
    /\ detail_tmp = NoFile
    /\ summary_tmp = NoFile

NextRun ==
    \/ RunLoad \/ RunFetch \/ RunAbort \/ RunCutoff \/ RunMerge \/ RunMergeFails
    \/ RunDedupe
    \/ DetailOpen \/ DetailWrite \/ DetailReplace
    \/ SummaryOpen \/ SummaryWrite \/ SummaryReplace
    \/ Kill

SpecRun == InitRun /\ [][NextRun]_vars

\* a Detailed file, not written by these scripts, with two rows of one show
DuplicateDoc ==
    [exists |-> TRUE,
     shows |-> <<[key |-> "k1", val |-> 1, mins |-> NoTime],
                 [key |-> "k1", val |-> 2, mins |-> NoTime]>>]

\* the runs of the data view when the first run may also find such a file
InitRunAnyFile ==
    /\ script \in Scripts
    /\ FetchIdle
    /\ RowIdle
    /\ rpc = "idle"
    /\ existing_rows = <<>>
    /\ new_rows = <<>>
    /\ scraped = <<>>
    /\ all_rows = <<>>
    /\ detail_at_start = NoFile
    /\ detail_file \in InitialFiles(script)
                         \cup (IF script \in MergingScripts THEN {DuplicateDoc} ELSE {})
    /\ summary_file = NoFile
    /\ detail_tmp = NoFile
    /\ summary_tmp = NoFile

SpecRunAnyFile == InitRunAnyFile /\ [][NextRun]_vars

---------------------------------------------------------------------------
(* Row view: the row extractor on one upstream show payload.  Percentages  *)
(* are kept in hundredths (round(x, 2) of the code), so 100% is 10000.     *)

\* a payload the extractor cannot read (the request failed, the body is no
\* JSON, a field has another type than the code expects)
Malformed == [malformed |-> TRUE]

\* outcome of an extractor that raised
Raised == [raised |-> TRUE]

Abs(n) == IF n < 0 THEN -n ELSE n

\* round() of n / d for n >= 0 and d > 0: to the nearest, a tie to the even
RoundHalfEven(n, d) ==
    LET q == n \div d
        r == n % d
    IN  IF 2 * r < d THEN q
        ELSE IF 2 * r > d THEN q + 1
        ELSE IF q % 2 = 0 THEN q ELSE q + 1

\* round() of n / d for any n and d # 0
Round(n, d) ==
    IF (n < 0) = (d < 0) THEN RoundHalfEven(Abs(n), Abs(d))
    ELSE 0 - RoundHalfEven(Abs(n), Abs(d))

RECURSIVE SumSeq(_)
SumSeq(q) == IF q = <<>> THEN 0 ELSE Head(q) + SumSeq(Tail(q))

RECURSIVE SumOver(_, _)
SumOver(f, S) ==
    IF S = {} THEN 0
    ELSE LET x == CHOOSE x \in S : TRUE IN f[x] + SumOver(f, S \ {x})

(* Nepal: showinfo payloads *)

\* ticket_type of a seat ("None": the seat has none) and price_level of a
\* ticket
TicketTypes == {"gold", "None"}
PriceLevels == {"gold", "silver"}
\* price of a ticket in minor units (0: no price given, or no such ticket)
TicketPrices == {0, 150, 250, 500}

\* the seats of new_seats, row after row
SeatKinds ==
    {[is_active |-> FALSE, seat_status |-> "Available", ticket_type |-> "gold"]}
    \cup [is_active : {TRUE},
          seat_status : {"Sold", "Reserved", "Available", "Gap"},
          ticket_type : TicketTypes]

NepalPayloads ==
    [new_seats : UNION {[1..n -> SeatKinds] : n \in 0..MaxSeatsInShow},
     tickets : [PriceLevels -> TicketPrices]]
    \cup {Malformed}

\* the row of the except branch
SkippedRow ==
    [seats |-> 0, sold |-> 0, reserved |-> 0, available |-> 0, gross |-> 0,
     occupancy_percent |-> 0, skipped |-> TRUE]

\* if not s.get("is_active") or s.get("seat_status") == "Gap": continue
Counted(s) == s.is_active /\ s.seat_status # "Gap"

\* variant: the price of a type times all its seats
TakingsOfAllSeats(tt) == tt.price * tt.seats

\* gross = tt["price"] * (tt["sold"] + tt["reserved"])
Takings(tt) == tt.price * (tt.sold + tt.reserved)

\* the try branch of fetch_show_summary: seats are counted per ticket type,
\* prices are taken from the tickets, totals are summed over the types
ShowSummary(p) ==
    LET seat_data == p.new_seats
        Of(t, statuses) ==
            Cardinality({i \in 1..Len(seat_data) :
                            /\ Counted(seat_data[i])
                            /\ seat_data[i].ticket_type = t
                            /\ seat_data[i].seat_status \in statuses})
        seen == {seat_data[i].ticket_type :
                     i \in {j \in 1..Len(seat_data) : Counted(seat_data[j])}}
        tt == [t \in seen |->
                 [price |-> IF t \in PriceLevels
                            THEN RoundHalfEven(p.tickets[t], 100) ELSE 0,
                  seats |-> Of(t, {"Sold", "Reserved", "Available", "Gap"}),
                  sold |-> Of(t, {"Sold"}),
                  reserved |-> Of(t, {"Reserved"}),
                  available |-> Of(t, {"Available", "Gap"})]]
        seats == SumOver([t \in seen |-> tt[t].seats], seen)
        sold == SumOver([t \in seen |-> tt[t].sold], seen)
        reserved == SumOver([t \in seen |-> tt[t].reserved], seen)
    IN  [seats |-> seats,
         sold |-> sold,
         reserved |-> reserved,
         available |-> SumOver([t \in seen |-> tt[t].available], seen),
         gross |-> SumOver([t \in seen |-> Takings(tt[t])], seen),
         occupancy_percent |->
             IF seats # 0 THEN RoundHalfEven(10000 * (sold + reserved), seats)
             ELSE 0]

\* fetch_show_summary: the row of the payload, the skipped row on any exception
FetchShowSummary ==
    /\ script \in NepalScripts
    /\ payload # NoPayload
    /\ extracted = NoRow
    /\ extracted' = IF payload = Malformed THEN SkippedRow ELSE ShowSummary(payload)
    /\ UNCHANGED <<script, fetchVars, runVars, payload, merged, summary, listed,
                   dispatched, scraperVars>>

(* Sri Lanka: one ShowTimes entry *)

SeatCounts == -1..2
MinPrices == {-1, 0, 3}

SriLankaPayloads ==
    [Categories : UNION {[1..n -> [MaxSeats : SeatCounts, SeatsAvail : SeatCounts]] :
                            n \in 0..MaxCategories},
     MinPrice : MinPrices]
    \cup {Malformed}

\* flatten: totals over the categories, sold = total - avail, and the
\* correction of implausible figures; available and totalSeats are the
\* sums as read
FlattenRow(sh) ==
    LET total == SumSeq([i \in 1..Len(sh.Categories) |-> sh.Categories[i].MaxSeats])
        avail == SumSeq([i \in 1..Len(sh.Categories) |-> sh.Categories[i].SeatsAvail])
        price == sh.MinPrice
        sold == total - avail
        gross == sold * price
        occupancy == IF total # 0 THEN Round(10000 * sold, total) ELSE 0
        bad == sold < 0 \/ gross < 0 \/ avail > total \/ total = 0
    IN  [totalSeats |-> total,
         available |-> avail,
         sold |-> IF bad THEN 0 ELSE sold,
         gross |-> IF bad THEN 0 ELSE gross,
         occupancy |-> IF bad THEN 0 ELSE occupancy,
         badData |-> bad]

\* flatten has no except branch: int() or float() of a malformed field raises
Flatten ==
    /\ script \in SriLankaScripts
    /\ payload # NoPayload
    /\ extracted = NoRow
    /\ extracted' = IF payload = Malformed THEN Raised ELSE FlattenRow(payload)
    /\ UNCHANGED <<script, fetchVars, runVars, payload, merged, summary, listed,
                   dispatched, scraperVars>>

Payloads(s) == IF s \in NepalScripts THEN NepalPayloads ELSE SriLankaPayloads

InitRow ==
    /\ script \in Scripts
    /\ FetchIdle
    /\ RunIdle
    /\ payload \in Payloads(script)
    /\ extracted = NoRow
    /\ SummaryIdle

NextRow == FetchShowSummary \/ Flatten

SpecRow == InitRow /\ [][NextRow]_vars

---------------------------------------------------------------------------
(* Summary view: the summary builder on a list of merged rows.  The lists  *)
(* the code returns are kept as functions from the movie (venue, format)   *)
(* to its block; occupancies are in hundredths of a percent.               *)

Movies == {"m1", "m2"}
Venues == {"v1", "v2", "None"}      \* "None": the venue of a skipped row
Occupancies == {0, 4999, 5000, 9799, 9800}
NepalCounts ==
    {[seats |-> 2, sold |-> 1, reserved |-> 0, available |-> 1],
     [seats |-> 5, sold |-> 2, reserved |-> 2, available |-> 1]}
SriLankaCounts ==
    {[totalSeats |-> 2, sold |-> 1, gross |-> 3],
     [totalSeats |-> 5, sold |-> 4, gross |-> 8]}

NepalMerged ==
    [movie_id : Movies, venue : Venues, counts : NepalCounts,
     occupancy_percent : Occupancies]
SriLankaMerged ==
    [movie : Movies, eventCode : Events, counts : SriLankaCounts,
     occupancy : Occupancies]

\* if occ >= 98
IsHousefull(occ) == occ >= 9800

\* variant: every show at least half full is fast-filling
IsHalfFull(occ) == occ >= 5000

\* elif 50 <= occ < 98
IsFastFilling(occ) == 5000 <= occ /\ occ < 9800

\* f with the value v at k, k added to its domain if need be
Set(f, k, v) == [x \in DOMAIN f \cup {k} |-> IF x = k THEN v ELSE f[x]]

EmptyFunction == [x \in {} |-> 0]

ZeroBlock ==
    [total_shows |-> 0, seats |-> 0, sold |-> 0, reserved |-> 0, available |-> 0,
     housefull |-> 0, fastfilling |-> 0]

\* the aggregate of one level takes the row in
AddShow(b, s) ==
    [b EXCEPT !.total_shows = @ + 1,
              !.seats = @ + s.counts.seats,
              !.sold = @ + s.counts.sold,
              !.reserved = @ + s.counts.reserved,
              !.available = @ + s.counts.available,
              !.housefull = @ + (IF IsHousefull(s.occupancy_percent) THEN 1 ELSE 0),
              !.fastfilling = @ + (IF ~IsHousefull(s.occupancy_percent)
                                       /\ IsFastFilling(s.occupancy_percent)
                                   THEN 1 ELSE 0)]

\* one turn of the loop of build_summary_by_movie: the movie block and the
\* venue block of the row, created when new, take the row in
AddToMovies(movies, s) ==
    LET mid == s.movie_id
        venue == IF s.venue = "None" THEN "Unknown" ELSE s.venue
        old == IF mid \in DOMAIN movies THEN movies[mid]
               ELSE [totals |-> ZeroBlock, venues |-> EmptyFunction]
        v == IF venue \in DOMAIN old.venues THEN old.venues[venue] ELSE ZeroBlock
    IN  Set(movies, mid, [totals |-> AddShow(old.totals, s),
                          venues |-> Set(old.venues, venue, AddShow(v, s))])

RECURSIVE BuildSummaryByMovie(_, _)
BuildSummaryByMovie(movies, rows) ==
    IF rows = <<>> THEN movies
    ELSE BuildSummaryByMovie(AddToMovies(movies, Head(rows)), Tail(rows))

build_summary_by_movie ==
    /\ script \in NepalScripts
    /\ summary = NoSummary
    /\ summary' = [movies |-> BuildSummaryByMovie(EmptyFunction, merged)]
    /\ UNCHANGED <<script, fetchVars, runVars, payload, extracted, merged, listed,
                   dispatched, scraperVars>>

ZeroFormat ==
    [shows |-> 0, gross |-> 0, sold |-> 0, totalSeats |-> 0,
     fastfilling |-> 0, housefull |-> 0]

ZeroTitle == [totalShows |-> 0, totalGross |-> 0, totalSold |-> 0, totalSeats |-> 0]

\* one turn of the summary loop of srilankadailybo.py: the block of the title
\* and the block of the event code, created when new, take the row in
AddToTitles(titles, s) ==
    LET old == IF s.movie \in DOMAIN titles THEN titles[s.movie]
               ELSE [totals |-> ZeroTitle, formats |-> EmptyFunction]
        f == IF s.eventCode \in DOMAIN old.formats THEN old.formats[s.eventCode]
             ELSE ZeroFormat
        f2 == [f EXCEPT !.shows = @ + 1,
                        !.gross = @ + s.counts.gross,
                        !.sold = @ + s.counts.sold,
                        !.totalSeats = @ + s.counts.totalSeats,
                        !.fastfilling = @ + (IF IsFastFilling(s.occupancy) THEN 1 ELSE 0),
                        !.housefull = @ + (IF IsHousefull(s.occupancy) THEN 1 ELSE 0)]
        t2 == [old.totals EXCEPT !.totalShows = @ + 1,
                                 !.totalGross = @ + s.counts.gross,
                                 !.totalSold = @ + s.counts.sold,
                                 !.totalSeats = @ + s.counts.totalSeats]
    IN  Set(titles, s.movie, [totals |-> t2,
                              formats |-> Set(old.formats, s.eventCode, f2)])

RECURSIVE BuildTitles(_, _)
BuildTitles(titles, rows) ==
    IF rows = <<>> THEN titles
    ELSE BuildTitles(AddToTitles(titles, Head(rows)), Tail(rows))

SlSummary ==
    /\ script = "sl_daily"
    /\ summary = NoSummary
    /\ summary' = [movies |-> BuildTitles(EmptyFunction, merged)]
    /\ UNCHANGED <<script, fetchVars, runVars, payload, extracted, merged, listed,
                   dispatched, scraperVars>>

MergedLists(s) ==
    UNION {[1..n -> IF s \in NepalScripts THEN NepalMerged ELSE SriLankaMerged] :
              n \in 0..MaxMerged}

InitSummary ==
    /\ script \in NepalScripts \cup {"sl_daily"}
    /\ FetchIdle
    /\ RunIdle
    /\ payload = NoPayload
    /\ extracted = NoRow
    /\ merged \in MergedLists(script)
    /\ summary = NoSummary
    /\ CutoffIdle

NextSummary == build_summary_by_movie \/ SlSummary

SpecSummary == InitSummary /\ [][NextSummary]_vars

---------------------------------------------------------------------------
(* Cutoff view: the filter of process_single_movie (Nepal daily) on the    *)
(* shows of one movie-info response.  The datetime of a show is missing,   *)
(* unparseable, or a time given by the seconds from now to the showtime.   *)

SecondsLeft ==
    {-61, -60, -59, 0, 59,
     60 * NEPAL_CUT_OFF_MINUTES, 60 * NEPAL_CUT_OFF_MINUTES + 59,
     60 * NEPAL_CUT_OFF_MINUTES + 60}

Datetimes ==
    {[kind |-> "missing"], [kind |-> "unparseable"]}
    \cup {[kind |-> "time", secs |-> n] : n \in SecondsLeft}

ListedShows == [show_id : {"s1", "s2"}, datetime : Datetimes]

\* variant: the minutes are rounded down
FloorDiv(n, d) == n \div d

\* int(n / d): the quotient truncated toward zero
TruncDiv(n, d) == IF n >= 0 THEN n \div d ELSE 0 - ((0 - n) \div d)

\* is_within_cutoff_from_now: False when the datetime does not parse, else
\* 0 <= mins_left <= CUT_OFF_MINUTES
IsWithinCutoffFromNow(dt) ==
    /\ dt.kind = "time"
    /\ LET mins_left == TruncDiv(dt.secs, 60)
       IN  0 <= mins_left /\ mins_left <= NEPAL_CUT_OFF_MINUTES

RECURSIVE ShowIds(_)
ShowIds(shows) ==
    IF shows = <<>> THEN <<>>
    ELSE IF Head(shows).datetime.kind # "missing"
            /\ IsWithinCutoffFromNow(Head(shows).datetime)
         THEN <<Head(shows).show_id>> \o ShowIds(Tail(shows))
         ELSE ShowIds(Tail(shows))

\* the loop over the theatres and their shows: show_ids is filled
PickShows ==
    /\ script = "nepal_daily"
    /\ dispatched = NotPicked
    /\ dispatched' = [done |-> TRUE, show_ids |-> ShowIds(listed)]
    /\ UNCHANGED <<script, fetchVars, runVars, payload, extracted, merged, summary,
                   listed, scraperVars>>

InitCutoff ==
    /\ script = "nepal_daily"
    /\ FetchIdle
    /\ RunIdle
    /\ payload = NoPayload
    /\ extracted = NoRow
    /\ merged = <<>>
    /\ summary = NoSummary
    /\ listed \in UNION {[1..n -> ListedShows] : n \in 0..MaxListed}
    /\ dispatched = NotPicked
    /\ ScraperIdle

NextCutoff == PickShows

SpecCutoff == InitCutoff /\ [][NextCutoff]_vars

---------------------------------------------------------------------------
(* Japan scraper: run() of scraper.py.  The pool has THREADS = 100 threads, *)
(* more than the dates of the model, so every submitted date is scraped    *)
(* without waiting for a thread.                                           *)

\* the JSON file of a date left by an earlier run, and the one save_json
\* writes in this run
EarlierJson == [exists |-> TRUE, entries |-> "earlier"]
ScrapedJson == [exists |-> TRUE, entries |-> "scraped"]

\* exists(date): os.path.exists of the date's file
Exists(d) == files[d].exists

\* variant: today is collected only when it has no file
MissingOnly(d) == ~Exists(d)

\* if not exists(d) or d == today
Missing(d) == ~Exists(d) \/ d = today

\* while start <= end: the dates from start to today that are collected
RECURSIVE Collect(_)
Collect(start) ==
    IF start > today THEN <<>>
    ELSE (IF Missing(start) THEN <<start>> ELSE <<>>) \o Collect(start + 1)

Collected == {dates.list[i] : i \in 1..Len(dates.list)}

\* run(): the dates are collected and pool.map submits scrape for each
CollectDates ==
    /\ script = "scraper"
    /\ ~dates.done
    /\ dates' = [done |-> TRUE, list |-> Collect(1)]
    /\ status' = [d \in Days |-> IF d <= today /\ Missing(d) THEN "queued" ELSE "idle"]
    /\ cursor' = 1
    /\ UNCHANGED <<script, fetchVars, runVars, payload, extracted, merged, summary,
                   listed, dispatched, today, files, attempts>>

\* what one call of scrape_day comes to: None for a status that is not 200
\* or a failed request, None for a page without posts, the day's data, or an
\* exception raised while the posts are read
DayOutcomes == {"non200", "noposts", "data", "raised"}

\* scrape(): while attempts >= 0: return scrape_day(date), or on an
\* exception attempts -= 1 and the next round
ScrapeDay(d) ==
    /\ script = "scraper"
    /\ status[d] = "queued"
    /\ attempts[d] >= 0
    /\ \E o \in DayOutcomes :
          /\ status' = [status EXCEPT ![d] = IF o = "raised" THEN "queued"
                                             ELSE IF o = "data" THEN "data" ELSE "none"]
          /\ attempts' = [attempts EXCEPT ![d] = IF o = "raised" THEN attempts[d] - 1
                                                 ELSE attempts[d]]
    /\ UNCHANGED <<script, fetchVars, runVars, payload, extracted, merged, summary,
                   listed, dispatched, today, files, dates, cursor>>

\* scrape(): the loop is over, the date goes to error.log, None is returned
ScrapeFailed(d) ==
    /\ script = "scraper"
    /\ status[d] = "queued"
    /\ attempts[d] < 0
    /\ status' = [status EXCEPT ![d] = "failed"]
    /\ UNCHANGED <<script, fetchVars, runVars, payload, extracted, merged, summary,
                   listed, dispatched, today, files, dates, attempts, cursor>>

\* for data in pool.map(scrape, dates): if data: save_json(data) -- the
\* results are taken in the order of dates
TakeResult ==
    /\ script = "scraper"
    /\ dates.done
    /\ cursor <= Len(dates.list)
    /\ LET d == dates.list[cursor]
       IN  /\ status[d] \in {"none", "failed", "data"}
           /\ files' = IF status[d] = "data" THEN [files EXCEPT ![d] = ScrapedJson]
                       ELSE files
    /\ cursor' = cursor + 1
    /\ UNCHANGED <<script, fetchVars, runVars, payload, extracted, merged, summary,
                   listed, dispatched, today, dates, status, attempts>>

InitScraper ==
    /\ script = "scraper"
    /\ FetchIdle
    /\ RunIdle
    /\ payload = NoPayload
    /\ extracted = NoRow
    /\ merged = <<>>
    /\ summary = NoSummary
    /\ listed = <<>>
    /\ dispatched = NotPicked
    /\ today \in Days
    /\ files \in [Days -> {NoFile, EarlierJson}]
    /\ dates = NotCollected
    /\ status = [d \in Days |-> "idle"]
    /\ attempts = [d \in Days |-> RETRIES]
    /\ cursor = 0

NextScraper ==
    \/ CollectDates
    \/ \E d \in Days : ScrapeDay(d) \/ ScrapeFailed(d)
    \/ TakeResult

SpecScraper == InitScraper /\ [][NextScraper]_vars

---------------------------------------------------------------------------
(* Properties of the data view (SpecRun) *)

\* the rows a Detailed file holds, none when there is no file
RowsIn(file) ==
    IF file.exists /\ file # Truncated /\ "shows" \in DOMAIN file THEN file.shows
    ELSE <<>>

\* the last row of rows with identity k
LastWith(rows, k) ==
    rows[CHOOSE i \in 1..Len(rows) :
            /\ rows[i].key = k
            /\ \A j \in (i + 1)..Len(rows) : rows[j].key # k]

RowOf(rows, k) == rows[CHOOSE i \in 1..Len(rows) : rows[i].key = k]

\* C1 -- merge monotonicity: the merge of the loaded rows D and the fetched
\* batch N holds every identity of D, so it has at least as many identities
\* as D; and over successive runs of a merging script an identity the
\* Detailed file held once is never absent from it later.
MergeMonotone ==
    [][ /\ (rpc = "merge" /\ rpc' = "dump_detail") =>
              /\ KeysOf(existing_rows) \subseteq KeysOf(all_rows')
              /\ Cardinality(KeysOf(all_rows')) >= Cardinality(KeysOf(existing_rows))
        /\ (script \in MergingScripts) =>
              KeysOf(RowsIn(detail_file)) \subseteq KeysOf(RowsIn(detail_file'))
      ]_vars

\* a merge of a non-empty store with a batch that misses one of its
\* identities and brings a new one has been done
MergeMonotoneWitness ==
    /\ script \in MergingScripts
    /\ rpc = "dump_detail"
    /\ KeysOf(existing_rows) \ KeysOf(new_rows) # {}
    /\ KeysOf(new_rows) \ KeysOf(existing_rows) # {}
    /\ Cardinality(KeysOf(all_rows)) > Cardinality(KeysOf(existing_rows))

\* the run writes its last file and ends
RunCompletes ==
    /\ rpc' = "idle"
    /\ \/ rpc = "write_detail" /\ detail_file' # detail_file
       \/ rpc = "replace_summary" /\ summary_tmp' # summary_tmp

\* C2, as the specification states it -- for every script that writes a
\* Detailed file, the file a completed run leaves has at least as many rows
\* as the file the run found.
DetailNeverShrinks ==
    [][ RunCompletes =>
            Len(RowsIn(detail_file')) >= Len(RowsIn(detail_at_start)) ]_vars

\* C2, as the code has it -- the number of rows of the Detailed file never
\* goes down for the scripts that merge (Nepal daily, Nepal advance, Sri
\* Lanka daily), at no step and so from no run to the next; the Sri Lanka
\* advance script writes the rows of the current run only.
MergingDetailNeverShrinks ==
    [][ (script \in MergingScripts) =>
            ( /\ Len(RowsIn(detail_file')) >= Len(RowsIn(detail_file))
              /\ RunCompletes =>
                     (Len(RowsIn(detail_file')) >= Len(RowsIn(detail_at_start))) ) ]_vars

\* a merging script has rewritten a Detailed file of two rows in a run that
\* fetched fewer rows, and the file still holds both
MergingDetailWitness ==
    /\ script \in MergingScripts
    /\ rpc = "dump_summary"
    /\ Len(existing_rows) = 2
    /\ Len(new_rows) < 2
    /\ Len(RowsIn(detail_file)) = 2

\* C3 -- merge overwrite: for an identity both in the loaded rows D and in
\* the fetched batch N the merged row is the row of N (the last one of N with
\* that identity); for an identity in D only it is the row of D, unchanged.
MergeOverwrite ==
    (rpc = "dump_detail" /\ script \in MergingScripts) =>
        \A k \in KeysOf(existing_rows) :
            /\ k \in KeysOf(all_rows)
            /\ RowOf(all_rows, k) = IF k \in KeysOf(new_rows)
                                    THEN LastWith(new_rows, k)
                                    ELSE RowOf(existing_rows, k)

\* a merge in which the batch brought another row for an identity of the
\* store and left another identity of the store alone has been done
MergeOverwriteWitness ==
    /\ script \in MergingScripts
    /\ rpc = "dump_detail"
    /\ \E k \in KeysOf(existing_rows) \cap KeysOf(new_rows) :
          LastWith(new_rows, k) # RowOf(existing_rows, k)
    /\ KeysOf(existing_rows) \ KeysOf(new_rows) # {}

---------------------------------------------------------------------------
(* Properties of the fetch view (SpecFetch, FairFetch) *)

\* caller c issues the requests.request of safe_request (Nepal)
CallBegins(c) == pc[c] = "call" /\ pc'[c] = "inflight"

\* caller c issues a request of any kind
AnyCallBegins(c) == pc[c] \notin InFlight /\ pc'[c] \in InFlight

\* C4 -- cooldown suppression: once a worker has seen a 429 and its
\* trigger_global_cooldown has run, no other worker's request begins before
\* the deadline has passed, in every interleaving, also when that worker had
\* already entered or passed wait_if_global_cooldown at the trigger.
CooldownSuppression ==
    [][ \A b \in Callers :
           (CallBegins(b) /\ \E a \in Callers \ {b} : prev[a] = "trigger") =>
               cooldown_until = 0 ]_vars

\* C5, as the specification states it -- every request of a run, of any
\* caller and of every script, is issued right after a
\* wait_if_global_cooldown of the same caller.
EveryCallAfterWait ==
    [][ \A c \in Callers : AnyCallBegins(c) => prev[c] = "wait" ]_vars

\* C5, as the code has it -- every request of the Nepal safe_request, first
\* attempt or retry, of a worker or of the main thread, is issued right after
\* a wait_if_global_cooldown of the same caller; the token request of
\* init_token_once and the requests of the Sri Lanka scripts are issued
\* without one.
SafeRequestCallAfterWait ==
    [][ \A c \in Callers :
           /\ CallBegins(c) => prev[c] = "wait"
           /\ (AnyCallBegins(c) /\ ~CallBegins(c)) => prev[c] # "wait" ]_vars

\* a retry of safe_request is in flight
SafeRequestCallWitness ==
    \E c \in Callers : pc[c] = "inflight" /\ calls[c] >= 2 /\ retries[c] < MAX_RETRIES

\* C6 -- retry budget: one safe_request issues at most MAX_RETRIES + 1
\* requests in the Nepal scripts, whatever the failures are, and at most
\* RETRY_PER_REQUEST in the Sri Lanka scripts; it returns on the first
\* response that is a success (Nepal: r.ok and not 429; Sri Lanka: status 200
\* with a JSON body) and issues no request after it.
RetryBudget ==
    [][ \A c \in Callers :
           /\ script \in NepalScripts => calls'[c] <= MAX_RETRIES + 1
           /\ script \in SriLankaScripts => calls'[c] <= RETRY_PER_REQUEST
           /\ (pc[c] \in {"inflight", "sl_inflight"} /\ outcome'[c] = "ok") =>
                  pc'[c] \in {"ret", "sl_ret"}
           /\ pc'[c] \in {"ret", "sl_ret"} => outcome'[c] = "ok"
           /\ pc[c] \in {"ret", "sl_ret"} => calls'[c] <= calls[c]
           /\ pc'[c] = "ret" => calls'[c] = (MAX_RETRIES - retries'[c]) + 1
      ]_vars

\* a safe_request has returned on its last request, after MAX_RETRIES failures
RetryBudgetWitness ==
    \E c \in Callers :
        pc[c] = "ret" /\ calls[c] = MAX_RETRIES + 1 /\ retries[c] = 0

\* C7 -- termination: under fair scheduling and advancing time every
\* safe_request returns or raises, whatever the upstream answers and however
\* other workers extend the cooldown.
SafeRequestTerminates ==
    \A c \in Callers : InSafeRequest(c) ~> (pc[c] \in Terminal)

\* a worker sleeps in wait_if_global_cooldown while another worker, after a
\* further 429, extends the cooldown
SafeRequestTerminatesWitness ==
    \E a, b \in Workers :
        /\ a # b
        /\ pc[a] = "wait_sleep"
        /\ retries[a] < MAX_RETRIES
        /\ pc[b] = "trig_flag"
        /\ cooldown_active

\* C8 -- on 429 the cooldown is triggered before the budget is looked at, on
\* the last attempt too; with no retry left "HTTP 429" is raised, else the
\* budget goes down by one and the loop goes on at the cooldown wait with no
\* sleep of its own.
On429 ==
    [][ \A c \in Callers :
           /\ (pc[c] = "inflight" /\ outcome'[c] = "429") => pc'[c] = "trig_lock"
           /\ pc'[c] \in {"budget_429", "raise_429"} =>
                  prev'[c] = "trigger" /\ outcome'[c] = "429"
           /\ (pc[c] = "budget_429" /\ pc'[c] # "budget_429") =>
                  IF retries[c] <= 0
                  THEN pc'[c] = "raise_429"
                  ELSE /\ pc'[c] = "wait_read"
                       /\ retries'[c] = retries[c] - 1
                       /\ timer'[c] = 0
      ]_vars

\* the last attempt was answered 429: the cooldown was triggered and
\* "HTTP 429" is raised
On429Witness ==
    \E c \in Callers :
        /\ pc[c] = "raise_429"
        /\ retries[c] = 0
        /\ calls[c] = MAX_RETRIES + 1
        /\ prev[c] = "trigger"
        /\ cooldown_active

\* C9 -- on a status that is not ok (and not 429) and on a connection error
\* or timeout, safe_request sleeps 1.5 s, takes one from the budget and goes
\* round the loop while a retry is left; with none left it raises the error
\* of the last attempt, the HTTP error for a status and the network error for
\* a connection error or timeout; the cooldown is not triggered.
OnError ==
    [][ \A c \in Callers :
           /\ (pc[c] = "inflight" /\ outcome'[c] \in {"http", "net"}) =>
                  IF retries[c] <= 0
                  THEN pc'[c] = (IF outcome'[c] = "http" THEN "raise_http"
                                 ELSE "raise_net")
                  ELSE pc'[c] = "retry_sleep" /\ timer'[c] = RETRY_SLEEP
           /\ (pc[c] = "retry_sleep" /\ pc'[c] # "retry_sleep") =>
                  /\ timer[c] = 0
                  /\ retries'[c] = retries[c] - 1
                  /\ pc'[c] = "wait_read"
           /\ pc'[c] = "raise_http" => outcome'[c] = "http"
           /\ pc'[c] = "raise_net" => outcome'[c] = "net"
           /\ pc'[c] \in {"trig_lock", "trig_flag"} => outcome'[c] = "429"
           /\ outcome'[c] \in {"http", "net"} => lock' # c
      ]_vars

\* a safe_request that saw six statuses that are not ok raises the HTTP
\* error, and no cooldown was triggered
OnErrorWitness ==
    \E c \in Callers :
        /\ pc[c] = "raise_http"
        /\ retries[c] = 0
        /\ calls[c] = MAX_RETRIES + 1
        /\ ~cooldown_active
        /\ cooldown_until = 0

\* C10 -- trigger coalescing: while a cooldown is in force the flag
\* cooldown_active stays set (so that a further trigger logs no second
\* start), in every interleaving of triggering and waiting workers.
CooldownFlagHeld ==
    (cooldown_until > 0 /\ lock = Free) => cooldown_active

\* C11 -- every write to cooldown_until or cooldown_active, by
\* trigger_global_cooldown and by wait_if_global_cooldown, is done by a caller
\* that holds cooldown_lock.
WritesUnderLock ==
    [][ \A c \in Callers :
           pc'[c] # pc[c] =>
               /\ cooldown_until' > cooldown_until => lock' = c
               /\ cooldown_active' # cooldown_active => lock = c ]_vars

\* C12 -- wait_if_global_cooldown returns only after a read of cooldown_until
\* that found the deadline passed; each sleep lasts at most one second and is
\* followed by a new read, so a caller asleep in the wait when the deadline
\* is extended stays in the wait until the extended deadline has passed.
WaitRereads ==
    [][ \A c \in Callers :
           /\ (pc[c] = "wait_read" /\ pc'[c] # "wait_read") =>
                  IF cooldown_until = 0
                  THEN pc'[c] = "wait_flag"
                  ELSE pc'[c] = "wait_sleep" /\ timer'[c] \in 1..WAIT_SLICE
           /\ (pc[c] = "wait_sleep" /\ pc'[c] # "wait_sleep") =>
                  timer[c] = 0 /\ pc'[c] = "wait_read"
           /\ (pc'[c] = "wait_flag" /\ pc[c] # "wait_flag") => pc[c] = "wait_read"
           /\ (pc'[c] = "wait_clear" /\ pc[c] # "wait_clear") => pc[c] = "wait_flag"
           /\ (pc'[c] = "call" /\ pc[c] # "call") =>
                  pc[c] \in {"wait_flag", "wait_clear"} ]_vars

\* a worker has slept one slice of the wait and, before it reads the
\* deadline again, another worker's trigger has set the deadline anew
WaitRereadsWitness ==
    \E a, b \in Workers :
        /\ a # b
        /\ pc[b] = "wait_sleep"
        /\ timer[b] = 0
        /\ prev[a] = "trigger"
        /\ cooldown_until = GLOBAL_COOLDOWN_SEC

---------------------------------------------------------------------------
(* Persistence (SpecRun) *)

\* C13 -- atomic persistence: in a script that writes with atomic_dump a
\* target file changes only by the os.replace that puts the whole new
\* document in its place; it is never truncated, and a kill at any point of
\* atomic_dump leaves it as it was (the Detailed file as the run found it).
AtomicPersistence ==
    [][ (script \in AtomicScripts) =>
           ( /\ detail_file' # Truncated /\ summary_file' # Truncated
             /\ (detail_file' # detail_file) =>
                    (rpc = "replace_detail" /\ detail_file' = DetailDoc(all_rows))
             /\ (summary_file' # summary_file) =>
                    (rpc = "replace_summary" /\ summary_file' = SummaryDoc(all_rows))
             /\ (rpc' = "killed") =>
                    /\ detail_file' = detail_file /\ summary_file' = summary_file
                    /\ (rpc \in {"dump_detail", "write_detail", "replace_detail"}) =>
                           (detail_file' = detail_at_start) ) ]_vars

\* the process was killed between the write of the Detailed file's .tmp and
\* the rename: the old Detailed file is in place, the new document is in .tmp
AtomicPersistenceWitness ==
    /\ script \in AtomicScripts
    /\ rpc = "killed"
    /\ detail_file.exists
    /\ detail_tmp \notin {NoFile, Truncated}
    /\ detail_tmp # detail_file

\* C14 -- every persisted file of every script is written to a temporary
\* file that is renamed over the target, so no target file is ever partially
\* written.
NoPartialTarget ==
    detail_file # Truncated /\ summary_file # Truncated

\* C15: multi-pass convergence. The rows of a job are added to all_rows only
\* when scrape_event returned them with ok, only for a job that had not
\* contributed before, and exactly once: a failed attempt adds nothing and
\* a job that failed on earlier passes and is ok later contributes once.
MultiPassConvergence ==
    [][ \A e \in Events :
           (added'[e] # added[e]) =>
               ( /\ added[e] = 0
                 /\ added'[e] = 1
                 /\ result'[e] = "rows"
                 /\ \E w \in Workers : job[w] = e /\ pc[w] = "sl_ret" ) ]_vars

\* a job that was not ok on passes 1 and 2 has contributed its rows on pass 3
MultiPassConvergenceWitness ==
    /\ stage = "pass"
    /\ attempt >= 3
    /\ \E e \in pending : added[e] = 1 /\ result[e] = "rows"

\* C16: multi-pass termination. A pass runs only with attempt within
\* SCRAPE_PASSES and a non-empty pending list; the loop is left exactly when
\* pending is empty or the passes are used up; a pass hands each of its jobs
\* to one worker once; the next pass starts only when every job of the
\* pass has completed.
PassesBounded ==
    [][ /\ (stage' = "pass") =>
               (attempt' \in 1..ScrapePasses(script) /\ pending' # {})
        /\ (stage = "pass_check" /\ stage' # stage) =>
               (stage' = "persist" <=>
                   (pending = {} \/ attempt > ScrapePasses(script)))
        /\ (attempt' # attempt /\ stage = "pass") =>
               (todo = {} /\ \A w \in Workers : job[w] = NoJob)
        /\ \A w \in Workers :
               (job'[w] # job[w] /\ job'[w] # NoJob) =>
                   ( /\ job'[w] \in todo \cap pending
                     /\ job'[w] \notin todo'
                     /\ \A v \in Workers : job[v] # job'[w] ) ]_vars

\* the loop has used every pass and leaves with jobs still pending
PassesBoundedWitness ==
    /\ stage = "persist"
    /\ attempt = ScrapePasses(script) + 1
    /\ pending # {}

\* C17: a job is carried into the next pass exactly when upstream returned
\* no usable data; a job whose request succeeded with no venue listed for
\* the date is not carried.
CarriedIffNoData ==
    [][ \A w \in Workers :
           (stage = "pass" /\ pc[w] \in SlTerminal /\ pc'[w] = "idle") =>
               (job[w] \in next_round' <=> result'[job[w]] = "no_data") ]_vars

(* Accessors of an extracted row, whichever extractor made it *)
IsRow(r) == r # NoRow /\ r # Raised
RowSeats(r) == IF "seats" \in DOMAIN r THEN r.seats ELSE r.totalSeats
RowReserved(r) == IF "reserved" \in DOMAIN r THEN r.reserved ELSE 0
RowOccupancy(r) ==
    IF "occupancy_percent" \in DOMAIN r THEN r.occupancy_percent ELSE r.occupancy

\* C18: row invariant. Every extracted row, skipped and badData rows
\* included, has sold + reserved + available = seats, no negative count, an
\* occupancy within 0..100 (percent, in hundredths) and occupancy 0 when it
\* has no seats.
RowInvariant ==
    IsRow(extracted) =>
        /\ extracted.sold + RowReserved(extracted) + extracted.available
               = RowSeats(extracted)
        /\ extracted.sold >= 0
        /\ RowReserved(extracted) >= 0
        /\ extracted.available >= 0
        /\ RowSeats(extracted) >= 0
        /\ RowOccupancy(extracted) \in 0..10000
        /\ RowSeats(extracted) = 0 => RowOccupancy(extracted) = 0

\* the implausible payloads of flatten
Implausible(sh) ==
    LET total == SumSeq([i \in 1..Len(sh.Categories) |-> sh.Categories[i].MaxSeats])
        avail == SumSeq([i \in 1..Len(sh.Categories) |-> sh.Categories[i].SeatsAvail])
    IN  \/ avail > total
        \/ total - avail < 0
        \/ (total - avail) * sh.MinPrice < 0
        \/ total = 0

\* C19: badData correction. The row flatten makes of an implausible payload
\* has sold = 0, gross = 0, occupancy = 0, badData set, and no negative
\* numeric field.
BadDataCorrection ==
    (script \in SriLankaScripts /\ IsRow(extracted) /\ Implausible(payload)) =>
        /\ extracted.sold = 0
        /\ extracted.gross = 0
        /\ extracted.occupancy = 0
        /\ extracted.badData
        /\ extracted.totalSeats >= 0
        /\ extracted.available >= 0

\* C20: an exception while one show is fetched or extracted stays in the
\* worker: when a worker's job ends, the main thread goes on with the batch.
WorkerExceptionContained ==
    [][ \A w \in Workers :
           (pc[w] \in Terminal \cup SlTerminal /\ pc'[w] = "idle") =>
               stage' = stage ]_vars

\* C21: only the setup failures abort a run. A Nepal run is aborted only at
\* the token request or at the movie-list request; a failed request of a
\* later step (the info request of one movie, retries exhausted) leaves the
\* run going.
OnlySetupAborts ==
    [][ (script \in NepalScripts /\ stage # "aborted" /\ stage' = "aborted") =>
            (stage \in {"token", "list"}) ]_vars

\* C22: a failed setup step ends the run without output. When the token
\* request or the movie-list request fails (Nepal), or get_movies fails
\* (Sri Lanka), the run is aborted, and an aborted run never goes on to
\* merge and persist.
SetupFailureAborts ==
    [][ /\ (stage = "token" /\ stage' # stage /\ outcome'["main"] # "ok") =>
               (stage' = "aborted")
        /\ (stage = "list" /\ stage' # stage /\ pc["main"] # "ret") =>
               (stage' = "aborted")
        /\ (stage = "movies" /\ stage' # stage /\ pc["main"] = "sl_none") =>
               (stage' = "aborted")
        /\ (stage = "aborted") => (stage' = "aborted") ]_vars

\* a Detailed file json.load reads as an object with a list of rows that all
\* have the identity key
WellFormed(file) ==
    /\ file.exists
    /\ "shows" \in DOMAIN file
    /\ \A i \in 1..Len(file.shows) : file.shows[i].key # NoKey

\* C23: loading the prior Detailed file never aborts the run. A file that is
\* missing, unparseable or of another shape is loaded as no rows, and the
\* merge of a run is always done (the run goes on to persist).
LoadNeverAborts ==
    [][ /\ (rpc = "idle" /\ rpc' = "fetch" /\ script \in MergingScripts
               /\ ~WellFormed(detail_file)) =>
               (existing_rows' = <<>>)
        /\ (rpc = "merge" /\ rpc' # rpc) =>
               (rpc' \in {"dump_detail", "killed"}) ]_vars

\* the unit price of a seat's ticket type in major units, 0 for a type
\* without price entry
UnitPrice(p, i) ==
    LET t == p.new_seats[i].ticket_type
    IN  IF t \in PriceLevels THEN RoundHalfEven(p.tickets[t], 100) ELSE 0

\* the seats of a payload that are active, not a Gap, and of these statuses
SeatsWith(p, statuses) ==
    {i \in 1..Len(p.new_seats) :
        /\ p.new_seats[i].is_active
        /\ p.new_seats[i].seat_status # "Gap"
        /\ p.new_seats[i].seat_status \in statuses}

RECURSIVE SumUnitPrices(_, _)
SumUnitPrices(p, S) ==
    IF S = {} THEN 0
    ELSE LET i == CHOOSE i \in S : TRUE
         IN  UnitPrice(p, i) + SumUnitPrices(p, S \ {i})

GoldSold == [is_active |-> TRUE, seat_status |-> "Sold", ticket_type |-> "gold"]

\* C24: Nepal row extraction. seats counts the active non-Gap seats, sold
\* and reserved those with status Sold and Reserved, available the rest;
\* gross is the unit price of its type for every sold or reserved seat (0
\* for a type without price entry); two sold seats of a type priced 500
\* minor units give seats 2, sold 2, reserved 0, available 0, gross 10,
\* occupancy 100.
NepalExtraction ==
    (script \in NepalScripts /\ IsRow(extracted) /\ payload # Malformed) =>
        /\ extracted.seats
               = Cardinality(SeatsWith(payload, {"Sold", "Reserved", "Available"}))
        /\ extracted.sold = Cardinality(SeatsWith(payload, {"Sold"}))
        /\ extracted.reserved = Cardinality(SeatsWith(payload, {"Reserved"}))
        /\ extracted.available
               = extracted.seats - extracted.sold - extracted.reserved
        /\ extracted.gross
               = SumUnitPrices(payload, SeatsWith(payload, {"Sold", "Reserved"}))
        /\ (payload.new_seats = <<GoldSold, GoldSold>> /\ payload.tickets["gold"] = 500) =>
               (extracted = [seats |-> 2, sold |-> 2, reserved |-> 0,
                             available |-> 0, gross |-> 10,
                             occupancy_percent |-> 10000])

\* a row of a show with a Gap seat, a sold seat of a priced type and an
\* available seat: its gross is less than the price times its seats
NepalExtractionWitness ==
    /\ script \in NepalScripts
    /\ IsRow(extracted)
    /\ payload # Malformed
    /\ Len(payload.new_seats) = 3
    /\ \E i \in 1..3 : payload.new_seats[i].is_active
                       /\ payload.new_seats[i].seat_status = "Gap"
    /\ extracted.seats = 2
    /\ extracted.sold = 1
    /\ extracted.available = 1
    /\ extracted.gross = 2

\* the rows a batch brings, one per identity: the last of each
BringsNothingNew(D, N) ==
    \A k \in KeysOf(N) : k \in KeysOf(D) /\ LastWith(N, k) = RowOf(D, k)

\* C25: idempotent re-fetch. Merging the batch a second time into the result
\* of the merge gives the same rows in the same order, the document written
\* is loaded back as those rows, and a run whose batch brings only rows the
\* loaded dataset already holds leaves the dataset as it was.
MergeIdempotent ==
    [][ (rpc = "merge" /\ rpc' = "dump_detail") =>
            ( /\ PutAll(all_rows', new_rows) = all_rows'
              /\ PutAll(PutAll(<<>>, Load(DetailDoc(all_rows'))), new_rows) = all_rows'
              /\ BringsNothingNew(existing_rows, new_rows) =>
                     (all_rows' = existing_rows) ) ]_vars

\* the second of two runs with the same batch of two rows has merged: the
\* dataset is the one it loaded
MergeIdempotentWitness ==
    /\ script \in MergingScripts
    /\ rpc = "dump_detail"
    /\ Len(existing_rows) = 2
    /\ KeysOf(new_rows) = KeysOf(existing_rows)
    /\ BringsNothingNew(existing_rows, new_rows)
    /\ all_rows = existing_rows
    /\ detail_file = DetailDoc(existing_rows)

\* C26: after every completed run the persisted Summary is the aggregation
\* of exactly the rows of the Detailed file the run persisted; between runs
\* the two files agree.
SummaryOfDetail ==
    [][ /\ RunCompletes =>
               (summary_file' = SummaryDoc(RowsIn(detail_file')))
        /\ (rpc' = "idle" /\ summary_file'.exists) =>
               (summary_file' = SummaryDoc(RowsIn(detail_file'))) ]_vars

\* a merging script has completed a run that left two rows of different
\* content in the Detailed file and the Summary of both
SummaryOfDetailWitness ==
    /\ script \in MergingScripts
    /\ rpc = "idle"
    /\ Len(RowsIn(detail_file)) = 2
    /\ detail_file.shows[1].val # detail_file.shows[2].val
    /\ summary_file = [exists |-> TRUE, total_shows |-> 2, totals |-> 3]

\* the sum of field f over the blocks of a function of blocks
SumField(blocks, f) == SumOver([k \in DOMAIN blocks |-> blocks[k][f]], DOMAIN blocks)

\* the rows of merged of one movie
ShowsOf(m) ==
    {i \in 1..Len(merged) :
        IF script \in NepalScripts THEN merged[i].movie_id = m
        ELSE merged[i].movie = m}

OccupancyOf(i) ==
    IF script \in NepalScripts THEN merged[i].occupancy_percent
    ELSE merged[i].occupancy

\* C27: aggregation. The summary has a block for every movie of the merged
\* rows; its number of shows is the number of merged rows of the movie; a
\* row is counted as housefull when its occupancy is at least 98, as
\* fast-filling when it is at least 50 and below 98, and never as both; and
\* every total of the movie is the sum of that total over the venue entries
\* (Sri Lanka: the format entries) of the movie.
Aggregation ==
    (summary # NoSummary) =>
        /\ DOMAIN summary.movies = {m \in Movies : ShowsOf(m) # {}}
        /\ \A m \in DOMAIN summary.movies :
              LET b == summary.movies[m]
                  full == {i \in ShowsOf(m) : OccupancyOf(i) >= 9800}
                  fast == {i \in ShowsOf(m) :
                              OccupancyOf(i) >= 5000 /\ OccupancyOf(i) < 9800}
              IN  IF script \in NepalScripts
                  THEN /\ b.totals.total_shows = Cardinality(ShowsOf(m))
                       /\ b.totals.housefull = Cardinality(full)
                       /\ b.totals.fastfilling = Cardinality(fast)
                       /\ full \cap fast = {}
                       /\ \A f \in {"total_shows", "seats", "sold", "reserved",
                                    "available", "housefull", "fastfilling"} :
                              b.totals[f] = SumField(b.venues, f)
                  ELSE /\ b.totals.totalShows = Cardinality(ShowsOf(m))
                       /\ SumField(b.formats, "housefull") = Cardinality(full)
                       /\ SumField(b.formats, "fastfilling") = Cardinality(fast)
                       /\ full \cap fast = {}
                       /\ b.totals.totalShows = SumField(b.formats, "shows")
                       /\ b.totals.totalGross = SumField(b.formats, "gross")
                       /\ b.totals.totalSold = SumField(b.formats, "sold")
                       /\ b.totals.totalSeats = SumField(b.formats, "totalSeats")

\* the summary of a movie with a housefull show in one venue and a
\* fast-filling show in another
AggregationWitness ==
    /\ script \in NepalScripts
    /\ summary # NoSummary
    /\ \E m \in DOMAIN summary.movies :
          /\ summary.movies[m].totals.total_shows = 2
          /\ summary.movies[m].totals.housefull = 1
          /\ summary.movies[m].totals.fastfilling = 1
          /\ Cardinality(DOMAIN summary.movies[m].venues) = 2

Busy == {w \in Workers : pc[w] # "idle"}

RECURSIVE InWindow(_)
InWindow(shows) ==
    IF shows = <<>> THEN <<>>
    ELSE LET dt == Head(shows).datetime
         IN  IF /\ dt.kind = "time"
                /\ dt.secs > -60
                /\ dt.secs < 60 * (NEPAL_CUT_OFF_MINUTES + 1)
             THEN <<Head(shows).show_id>> \o InWindow(Tail(shows))
             ELSE InWindow(Tail(shows))

\* C30: Nepal cutoff filter. A listed show is dispatched exactly when its
\* datetime parses and the whole minutes to its showtime, truncated toward
\* zero, are in 0..CUT_OFF_MINUTES: that is from less than a minute after
\* the start to less than a minute beyond the cutoff. Shows without
\* datetime, with an unparseable one, beyond the cutoff or started a minute
\* or more ago are not dispatched.
CutoffFilter ==
    dispatched.done => dispatched.show_ids = InWindow(listed)

\* a show that started 59 seconds ago is dispatched, one that starts a
\* minute after the cutoff is not
CutoffFilterWitness ==
    /\ dispatched.done
    /\ Len(listed) = 2
    /\ listed[1].datetime = [kind |-> "time", secs |-> -59]
    /\ listed[2].datetime = [kind |-> "time", secs |-> 60 * NEPAL_CUT_OFF_MINUTES + 60]
    /\ dispatched.show_ids = <<listed[1].show_id>>

\* a row whose showtime parses and is CUT_OFF_MINUTES or more away
Late(r) == r.mins # NoTime /\ r.mins[1] >= CUT_OFF_MINUTES

\* the rows of a batch that are not late, in their order
InTime(rows) == SelectSeq(rows, LAMBDA r : ~Late(r))

\* C31: the Sri Lanka daily cutoff acts on the rows fetched in the run only.
\* After the merge the dataset holds the identities of the stored rows and
\* of the fetched rows that are not late; an identity with a fetched row
\* that is not late (its time does not parse, its showtime is past or less
\* than CUT_OFF_MINUTES away) has the last such row, and a stored identity
\* without one keeps its stored row, whether or not a late row was fetched
\* for it.
CutoffOnFreshOnly ==
    (script = "sl_daily" /\ rpc = "dump_detail") =>
        /\ KeysOf(all_rows) = KeysOf(existing_rows) \cup KeysOf(InTime(scraped))
        /\ \A k \in KeysOf(all_rows) :
              RowOf(all_rows, k) = IF k \in KeysOf(InTime(scraped))
                                   THEN LastWith(InTime(scraped), k)
                                   ELSE RowOf(existing_rows, k)
        /\ \A i \in 1..Len(scraped) :
              (scraped[i].mins = NoTime \/ scraped[i].mins[1] < 0) =>
                  scraped[i].key \in KeysOf(all_rows)

\* a late row was fetched for a stored identity with other contents and a
\* row of a show already started for a new identity: the stored row stays,
\* the started show is added
CutoffOnFreshOnlyWitness ==
    /\ script = "sl_daily"
    /\ rpc = "dump_detail"
    /\ Len(scraped) = 2
    /\ Late(scraped[1])
    /\ scraped[1].key \in KeysOf(existing_rows)
    /\ scraped[1].val # RowOf(existing_rows, scraped[1].key).val
    /\ scraped[2].mins = <<-1>>
    /\ scraped[2].key \notin KeysOf(existing_rows)
    /\ RowOf(all_rows, scraped[1].key) = RowOf(existing_rows, scraped[1].key)
    /\ RowOf(all_rows, scraped[2].key) = scraped[2]

\* C32: in the Nepal scripts a skipped row of this run takes the place of
\* the stored row of the same show: when the last row fetched for a stored
\* show is a skipped one, the merged dataset holds that skipped row, with
\* counts, gross and occupancy 0, and the stored values are gone.
SkippedReplacesStored ==
    (script \in NepalScripts /\ rpc = "dump_detail") =>
        \A k \in KeysOf(existing_rows) \cap KeysOf(new_rows) :
            IsSkipped(LastWith(new_rows, k)) =>
                /\ IsSkipped(RowOf(all_rows, k))
                /\ RowOf(all_rows, k).val = 0

\* a show stored with its values by an earlier run was fetched again, the
\* fetch failed, and the merged dataset has the zero row
SkippedReplacesStoredWitness ==
    /\ script \in NepalScripts
    /\ rpc = "dump_detail"
    /\ \E k \in KeysOf(existing_rows) \cap KeysOf(new_rows) :
          /\ ~IsSkipped(RowOf(existing_rows, k))
          /\ RowOf(existing_rows, k).val > 0
          /\ IsSkipped(LastWith(new_rows, k))
          /\ RowOf(all_rows, k).val = 0

RowsOfEvent(rows, e) ==
    {rows[i] : i \in {j \in 1..Len(rows) : EventOf(rows[j].key) = e}}

\* fetch view: a variant left pending when the pass loop ends has had no
\* rows added on any pass
PendingAddedNothing ==
    (script = "sl_daily" /\ stage = "persist") => \A e \in pending : added[e] = 0

\* C34: Sri Lanka daily. For an event variant still pending after the last
\* pass the run has collected no row, the merged dataset holds for it
\* exactly the rows stored by earlier runs (no row and no record of the
\* failure is added), and each of them is unchanged.
PendingLeavesStored ==
    (script = "sl_daily" /\ rpc = "dump_detail") =>
        \A e \in pending :
            /\ RowsOfEvent(scraped, e) = {}
            /\ RowsOfEvent(all_rows, e) = RowsOfEvent(existing_rows, e)
            /\ \A k \in KeysOf(existing_rows) :
                  (EventOf(k) = e) =>
                      (k \in KeysOf(all_rows)
                       /\ RowOf(all_rows, k) = RowOf(existing_rows, k))

\* a variant with a stored row is still pending after the last pass, the
\* other variant brought a row, and the merge is done
PendingLeavesStoredWitness ==
    /\ script = "sl_daily"
    /\ rpc = "dump_detail"
    /\ \E e \in pending :
          /\ RowsOfEvent(existing_rows, e) # {}
          /\ RowsOfEvent(all_rows, e) = RowsOfEvent(existing_rows, e)
    /\ new_rows # <<>>
    /\ Len(all_rows) > Len(existing_rows)

\* no two rows of the list have the same identity key
DistinctKeys(rows) ==
    \A i, j \in 1..Len(rows) : (rows[i].key = rows[j].key) => (i = j)

\* C35: the Detailed file a run writes has pairwise distinct identity keys,
\* whatever the fetched batch and the file the run found held: every
\* document put in the place of the Detailed file, and so the file after
\* every completed run, has no two rows with the same key.
DetailKeysDistinct ==
    [][ /\ (detail_file' # detail_file /\ detail_file' # Truncated) =>
               DistinctKeys(RowsIn(detail_file'))
        /\ RunCompletes => DistinctKeys(RowsIn(detail_file')) ]_vars

\* a run that found a file with two rows of one show and fetched two rows
\* of one show has replaced the Detailed file
DetailKeysDistinctWitness ==
    /\ script \in MergingScripts
    /\ rpc = "dump_summary"
    /\ Len(existing_rows) = 2
    /\ existing_rows[1].key = existing_rows[2].key
    /\ Len(new_rows) = 2
    /\ new_rows[1].key = new_rows[2].key
    /\ detail_file = DetailDoc(all_rows)
    /\ DistinctKeys(detail_file.shows)

\* C36: Japan scraper run(). A date that has its file and is not today is
\* never scraped and its file is never rewritten; the dates collected are
\* exactly the dates from START_YEAR-01-01 to today that have no file, and
\* today; a file changes only for a date whose scrape returned data, so a
\* date whose scrape returned nothing (a status that is not 200, no posts,
\* or RETRIES + 1 attempts that raised) gets no file and keeps the file it
\* has.
ScraperFrame ==
    [][ /\ \A d \in Days :
              /\ (Exists(d) /\ d # today /\ status[d] = "idle") =>
                     (status'[d] = "idle" /\ files'[d] = files[d])
              /\ (files'[d] # files[d]) => (dates.done /\ status[d] = "data")
              /\ (status[d] \in {"none", "failed"}) => (files'[d] = files[d])
              /\ (status'[d] = "failed" /\ status[d] # "failed") =>
                     (RETRIES - attempts[d] = RETRIES + 1)
        /\ (~dates.done /\ dates'.done) =>
              \A d \in Days :
                  /\ (d \in {dates'.list[i] : i \in 1..Len(dates'.list)}) <=>
                         (d <= today /\ (d = today \/ ~Exists(d)))
                  /\ status'[d] = "queued" <=>
                         (d <= today /\ (d = today \/ ~Exists(d)))
      ]_vars

\* every result is taken: a date with a file was left alone, a date without
\* one was scraped and saved, and today, whose three attempts raised, keeps
\* the file it had
ScraperFrameWitness ==
    /\ script = "scraper"
    /\ dates.done
    /\ cursor = Len(dates.list) + 1
    /\ today = 3
    /\ files[1] = EarlierJson /\ status[1] = "idle"
    /\ files[2] = ScrapedJson /\ status[2] = "data"
    /\ files[3] = EarlierJson /\ status[3] = "failed" /\ attempts[3] = -1

=============================================================================
